---- MODULE Spec2Model ----
(***************************************************************************)
(* Model of the KeyRotator Durable Object (src/src/KeyRotator.ts): the     *)
(* credential pool, the rotation cursor, the RAM token cache, the          *)
(* rate-limit tracker, token refresh, account selection (getValidToken)    *)
(* and the proxy dispatcher (handleProxy) with its failover retries.       *)
(*                                                                         *)
(* The object is single-threaded; requests interleave only where the code  *)
(* awaits a network call (the token refresh fetch, the upstream fetch).    *)
(* Every action below is one synchronous run of the code between two such  *)
(* suspension points.  Time is in milliseconds, as Date.now() is.          *)
(***************************************************************************)
EXTENDS Integers, Sequences, FiniteSets, TLC

\* ------------------------------------------------------------------ bounds
MaxPool == 2        \* largest number of loaded credentials explored
NumReq == 2         \* requests served in one behaviour, possibly interleaved
MaxReports == 1     \* rate-limit reports posted from outside in one behaviour
MaxTicks == 1       \* clock advances in one behaviour

\* --------------------------------------------------------- program constants
TOKEN_BUFFER_TIME == 5 * 60 * 1000
RATE_LIMIT_COOLDOWN == 60 * 1000

\* the clock advances by half a cooldown or by a whole one
TickChoices == {RATE_LIMIT_COOLDOWN \div 2, RATE_LIMIT_COOLDOWN}

\* expires_in answers (seconds) of the authorization server: one equal to the
\* buffer window, one a minute beyond it
ExpiresInChoices == {300, 360}

ModelTypes == {"pro", "flash"}

\* model ids a dispatch may name, with modelId.includes("pro")
ModelIds == {"gemini-2.5-pro", "gemini-2.5-flash"}
IncludesPro(modelId) == modelId = "gemini-2.5-pro"

\* upstream answers: the status, and the body stream of the k-th call of a
\* dispatch (the streams of two calls are different objects)
Statuses == {200, 401, 429, 503}
UpstreamBody(k) == <<"body", k>>
NoBody == <<"body", 0>>

Procs == 1..NumReq
\* In Spec the first request of a behaviour may be a dispatch (POST /proxy);
\* every request may be a selection (GET /get-token)
Dispatchers == {1}

\* value of x % 0 in the source
NaN == 0 - 1
\* storage.get() of a key never written
Undefined == 0 - 2

VARIABLES
    credentials,      \* number of loaded credentials (this.credentials.length)
    clientConfigured, \* OAUTH client id and secret resolve to non-placeholder values
    currentIndex,     \* this.currentIndex
    tokenCache,       \* this.tokenCache : account index -> CachedToken
    rateLimits,       \* this.rateLimits : account index -> RateLimitState
    storage,          \* persisted "currentIndex" of this.state.storage
    now,              \* Date.now()
    ticks,            \* clock advances so far
    lastReport,       \* history: time of the last report per <<account, class>>
    reportsMade,      \* rate-limit reports posted from outside so far
    req,              \* per request slot: position and locals of the handler
    initialized,      \* this.initialized
    boot,             \* secrets found in this.env and position of loadState
    session           \* the stream translator's closure state, input and output

vars == <<credentials, clientConfigured, currentIndex, tokenCache, rateLimits,
          storage, now, ticks, lastReport, reportsMade, req, initialized, boot,
          session>>

\* ------------------------------------------------------------ Map helpers
EmptyMap == [x \in {} |-> 0]
MapHas(m, k) == k \in DOMAIN m
MapSet(m, k, v) == [x \in (DOMAIN m) \cup {k} |-> IF x = k THEN v ELSE m[x]]
MapDelete(m, k) == [x \in (DOMAIN m) \ {k} |-> m[x]]

Accounts == 0 .. (credentials - 1)

\* credentials[idx].project_id
ProjectOf(idx) == <<"project", idx>>

NoProject == <<"project", NaN>>

\* ------------------------------------------------------- request records
NoFrame == [now |-> 0, attempt |-> 0, rateLimitedCount |-> 0,
            tokenRefreshFailedCount |-> 0, idx |-> NaN, probes |-> << >>,
            flashOnly |-> FALSE]
NoToken == <<"token", 0, 0>>
NoTokenResult == [token |-> NoToken, accountIndex |-> NaN, projectId |-> NoProject]
NoResult == [status |-> 0, body |-> NoBody, errorType |-> "none",
             token |-> NoToken,
             accountIndex |-> NaN, xAccountIndex |-> NaN, xProjectId |-> NoProject]

NoCall == [token |-> NoToken, project |-> NoProject, accountIndex |-> NaN]

IdleReq == [pc |-> "idle", kind |-> "none", modelType |-> "flash",
            phase |-> "none", sel |-> NoFrame, first |-> NoTokenResult,
            retry |-> NoTokenResult, call |-> NoCall, nCalls |-> 0,
            resp |-> << >>, reportedAt |-> Undefined,
            evicted |-> NoToken, fresh |-> NoToken, issued |-> 0,
            res |-> NoResult, after |-> NaN]

\* loadState has returned, having found n parsable credential secrets
Booted(n) == [secrets |-> n, pc |-> "returned"]

\* handleStreamingRequest lines 198-199: the translator before its first chunk.
\* upstream is what the proxied body still has to deliver, received what it
\* has delivered, out the events enqueued so far, midLine whether a chunk has
\* ended inside a line.
NoSession == [streamThinkingAsContent |-> FALSE, upstream |-> << >>,
              received |-> << >>, buffer |-> << >>, isInThinking |-> FALSE,
              out |-> << >>, lineNo |-> 0, closed |-> FALSE,
              midLine |-> FALSE]

\* ------------------------------------------------------------------- Init
\* State after the constructor's loadState() on a first start: the
\* credentials found in the environment are loaded, nothing is persisted yet,
\* both maps are empty.
StoredChoices == {Undefined}

loadState(storedIndex) == IF storedIndex # Undefined THEN storedIndex ELSE 0

Init ==
    /\ credentials \in 0 .. MaxPool
    /\ clientConfigured \in BOOLEAN
    /\ storage \in StoredChoices
    /\ currentIndex = loadState(storage)
    /\ tokenCache = EmptyMap
    /\ rateLimits = EmptyMap
    /\ now = 0
    /\ ticks = 0
    /\ lastReport = [k \in (0 .. MaxPool) \X ModelTypes |-> Undefined]
    /\ reportsMade = 0
    /\ req = [p \in Procs |-> IdleReq]
    /\ initialized = TRUE
    /\ boot = Booted(credentials)
    /\ session = NoSession

\* ------------------------------------------------------ token cache/refresh
\* a faulty lookup: the cache is never served
CachedValidIn_never(cache, idx) == FALSE

\* getOrRefreshToken, lines 351-357: the cache entry is served iff it is
\* outside the buffer window at the current time
CachedValidIn(cache, idx) ==
    /\ MapHas(cache, idx)
    /\ cache[idx].expiryDate - TOKEN_BUFFER_TIME > now

CachedValid(idx) == CachedValidIn(tokenCache, idx)

\* refreshToken, lines 420-425: the token built from a 2xx answer with
\* expires_in = e, received at the current time
refreshToken(accessToken, e) ==
    [accessToken |-> accessToken, expiryDate |-> now + e * 1000]

\* getOrRefreshToken, lines 367-374: the cache entry written after a
\* successful refresh
NewCacheEntry(idx, newToken) ==
    [accessToken |-> newToken.accessToken, expiryDate |-> newToken.expiryDate,
     accountIndex |-> idx]

\* the access_token of the next 2xx answer to a refresh made by request p:
\* the authorization server never hands out the same token twice
NewAccessToken(p, r) == <<"token", p, r.issued + 1>>

\* ------------------------------------------------------ rate-limit tracker
\* a faulty tracker: one flag for both model classes
IsLimitedFlag_anyClass(rateLimit, modelType) ==
    rateLimit.proLimited \/ rateLimit.flashLimited

IsLimitedFlag(rateLimit, modelType) ==
    IF modelType = "pro" THEN rateLimit.proLimited ELSE rateLimit.flashLimited

\* a faulty comparison: the account is still skipped at the deadline itself
SkipAsLimited_atDeadline(limits, idx, modelType, selNow) ==
    /\ MapHas(limits, idx)
    /\ IsLimitedFlag(limits[idx], modelType)
    /\ selNow <= limits[idx].limitedUntil

\* getValidToken, lines 303-309
SkipAsLimited(limits, idx, modelType, selNow) ==
    /\ MapHas(limits, idx)
    /\ IsLimitedFlag(limits[idx], modelType)
    /\ selNow < limits[idx].limitedUntil

\* getValidToken, lines 310-313
ClearExpired(limits, idx, selNow) ==
    IF MapHas(limits, idx) /\ selNow >= limits[idx].limitedUntil
    THEN MapDelete(limits, idx)
    ELSE limits

\* a faulty report: the entry is rebuilt from scratch, the flag of the other
\* class is lost
ReportedEntry_fresh(limits, accountIndex, modelType) ==
    [proLimited |-> modelType = "pro", flashLimited |-> modelType # "pro",
     limitedUntil |-> now + RATE_LIMIT_COOLDOWN]

\* handleRateLimitReport, lines 439-453
ReportedEntry(limits, accountIndex, modelType) ==
    LET existing == IF MapHas(limits, accountIndex) THEN limits[accountIndex]
                    ELSE [proLimited |-> FALSE, flashLimited |-> FALSE,
                          limitedUntil |-> 0]
        flagged == IF modelType = "pro"
                   THEN [existing EXCEPT !.proLimited = TRUE]
                   ELSE [existing EXCEPT !.flashLimited = TRUE]
    IN [flagged EXCEPT !.limitedUntil = now + RATE_LIMIT_COOLDOWN]

\* handleRateLimitReport, line 456
RotatedIndex(accountIndex) ==
    IF credentials = 0 THEN NaN ELSE (accountIndex + 1) % credentials

\* ------------------------------------------------------ account selection
\* One entry of a selection's probe history: the account probed, what the
\* probe did, the time it happened, and what the tracker held for it.
ProbeEntry(limits, idx, modelType, selNow, reports, outcome) ==
    [idx |-> idx, outcome |-> outcome,
     had |-> MapHas(limits, idx),
     flag |-> MapHas(limits, idx) /\ IsLimitedFlag(limits[idx], modelType),
     expiredSel |-> MapHas(limits, idx) /\ selNow >= limits[idx].limitedUntil,
     expiredNow |-> MapHas(limits, idx) /\ now >= limits[idx].limitedUntil,
     removed |-> /\ MapHas(limits, idx)
                 /\ outcome # "limited"
                 /\ ~MapHas(ClearExpired(limits, idx, selNow), idx),
     cooling |-> /\ reports[<<idx, modelType>>] # Undefined
                 /\ now < reports[<<idx, modelType>>] + RATE_LIMIT_COOLDOWN]

\* getValidToken, line 300: the account probed at an attempt
ProbeIndex(cur, attempt) == (cur + attempt) % credentials

\* getValidToken, lines 299-330: the loop run from frame f (its now, attempt
\* and tallies) with cursor cur until it returns a cached token ("token"),
\* has to await a refresh answer ("await") or runs out of attempts
\* ("exhausted").  limits is the tracker as the run leaves it.
RECURSIVE getValidTokenLoop(_, _, _, _, _)
getValidTokenLoop(modelType, f, limits, cur, reports) ==
    IF ~(f.attempt < credentials)
    THEN [out |-> "exhausted", f |-> f, limits |-> limits, token |-> NoToken]
    ELSE
      LET idx == ProbeIndex(cur, f.attempt)
          probed(o) == Append(f.probes,
                         ProbeEntry(limits, idx, modelType, f.now, reports, o))
      IN IF SkipAsLimited(limits, idx, modelType, f.now)
         THEN getValidTokenLoop(modelType,
                 [f EXCEPT !.attempt = @ + 1, !.rateLimitedCount = @ + 1,
                           !.idx = idx, !.probes = probed("limited")],
                 limits, cur, reports)
         ELSE IF CachedValid(idx)
         THEN [out |-> "token",
               f |-> [f EXCEPT !.idx = idx, !.probes = probed("cached")],
               limits |-> ClearExpired(limits, idx, f.now),
               token |-> tokenCache[idx].accessToken]
         ELSE IF ~clientConfigured
         THEN getValidTokenLoop(modelType,
                 [f EXCEPT !.attempt = @ + 1, !.tokenRefreshFailedCount = @ + 1,
                           !.idx = idx, !.probes = probed("refresh_failed")],
                 ClearExpired(limits, idx, f.now), cur, reports)
         ELSE [out |-> "await",
               f |-> [f EXCEPT !.idx = idx, !.probes = probed("refreshing")],
               limits |-> ClearExpired(limits, idx, f.now),
               token |-> NoToken]

\* a faulty classification: any skipped account makes the failure a
\* rate-limit exhaustion
ExhaustedErrorType_anySkipped(rateLimitedCount, tokenRefreshFailedCount, totalAccounts) ==
    IF rateLimitedCount > 0 THEN "all_rate_limited"
    ELSE IF tokenRefreshFailedCount > 0 THEN "all_token_refresh_failed"
    ELSE "all_rate_limited"

\* getValidToken, lines 332-344: the failure kind after the loop
ExhaustedErrorType(rateLimitedCount, tokenRefreshFailedCount, totalAccounts) ==
    IF rateLimitedCount = totalAccounts THEN "all_rate_limited"
    ELSE IF tokenRefreshFailedCount > 0 THEN "all_token_refresh_failed"
    ELSE "all_rate_limited"

\* getValidToken as a whole, from a frame: lines 290-293 and the loop
getValidToken(modelType, f, limits, cur, reports) ==
    IF credentials = 0
    THEN [out |-> "no_credentials", f |-> f, limits |-> limits, token |-> NoToken]
    ELSE getValidTokenLoop(modelType, f, limits, cur, reports)

SelectionErrorType(sel) ==
    IF sel.out = "no_credentials" THEN "no_credentials"
    ELSE ExhaustedErrorType(sel.f.rateLimitedCount,
                            sel.f.tokenRefreshFailedCount, credentials)

\* handleGetToken line 266, handleProxy lines 482 and 550
ErrorStatus(errorType) ==
    IF errorType = "all_token_refresh_failed" THEN 500 ELSE 429

\* getValidToken, lines 319-326: the account returned
TokenResult(sel) ==
    [token |-> sel.token, accountIndex |-> sel.f.idx,
     projectId |-> ProjectOf(sel.f.idx)]

\* getValidToken, lines 320-324: a selection that succeeds after rotating
Rotated(sel) == sel.out = "token" /\ sel.f.attempt > 0

\* --------------------------------------------------------------- dispatcher
\* handleProxy line 477
ModelTypeOf(modelId) == IF IncludesPro(modelId) THEN "pro" ELSE "flash"

\* handleProxy lines 500-514: the first upstream call
FirstCall(tokenResult) ==
    [token |-> tokenResult.token, project |-> tokenResult.projectId,
     accountIndex |-> tokenResult.accountIndex]

\* handleProxy lines 533-540: the call retried after a 429/503; the body is
\* the geminiRequest built for the first call
RetryCall(first, retryToken) ==
    [token |-> retryToken.token, project |-> first.projectId,
     accountIndex |-> retryToken.accountIndex]

\* handleProxy lines 565-572: the call retried after a 401
FreshCall(first, freshToken) ==
    [token |-> freshToken, project |-> first.projectId,
     accountIndex |-> first.accountIndex]

\* handleGetToken lines 265-271, handleProxy lines 481-487
SelectionFailure(errorType) ==
    [NoResult EXCEPT !.status = ErrorStatus(errorType), !.errorType = errorType]

\* handleProxy lines 548-556
RetrySelectionFailure(errorType, first) ==
    [NoResult EXCEPT !.status = ErrorStatus(errorType), !.errorType = errorType,
                     !.xAccountIndex = first.accountIndex,
                     !.xProjectId = first.projectId]

\* a faulty pass-through: the status is kept, the body is dropped
PassThrough_noBody(response, first) ==
    [NoResult EXCEPT !.status = response.status,
                     !.xAccountIndex = first.accountIndex,
                     !.xProjectId = first.projectId]

\* a faulty pass-through: the diagnostic headers are not set
PassThrough_noHeaders(response, first) ==
    [NoResult EXCEPT !.status = response.status, !.body = response.body]

\* handleProxy lines 581-589
PassThrough(response, first) ==
    [NoResult EXCEPT !.status = response.status, !.body = response.body,
                     !.xAccountIndex = first.accountIndex,
                     !.xProjectId = first.projectId]

\* handleProxy lines 542-545 and 574-577
RetryPassThrough(retryResponse) ==
    [NoResult EXCEPT !.status = retryResponse.status, !.body = retryResponse.body]

\* a faulty catch: the exception is answered like a rate-limit exhaustion
ProxyFailed_asRateLimited ==
    [NoResult EXCEPT !.status = 429, !.errorType = "all_rate_limited"]

\* handleProxy lines 590-596
ProxyFailed == [NoResult EXCEPT !.status = 500, !.errorType = "proxy_failed"]

\* handleGetToken lines 273-279
TokenResponse(tokenResult) ==
    [NoResult EXCEPT !.status = 200, !.token = tokenResult.token,
                     !.accountIndex = tokenResult.accountIndex,
                     !.xProjectId = tokenResult.projectId]

\* the handler returns response res
Done(r, res) ==
    [r EXCEPT !.pc = "done", !.call = NoCall, !.sel.now = 0, !.res = res]

\* What the handler does with the outcome sel of a selection it was waiting
\* for: suspend on the refresh, answer, or issue the upstream call.
AfterSelection(r, sel) ==
    IF sel.out = "await"
    THEN [r EXCEPT !.pc = "sel_refresh", !.sel = sel.f]
    ELSE IF sel.out = "token"
    THEN IF r.phase = "getToken"
         THEN Done([r EXCEPT !.sel = sel.f, !.first = TokenResult(sel)],
                   TokenResponse(TokenResult(sel)))
         ELSE IF r.phase = "first"
         THEN [r EXCEPT !.pc = "call1", !.sel = sel.f,
                        !.first = TokenResult(sel),
                        !.call = FirstCall(TokenResult(sel)),
                        !.nCalls = @ + 1]
         ELSE [r EXCEPT !.pc = "call2", !.sel = sel.f,
                        !.retry = TokenResult(sel),
                        !.call = RetryCall(r.first, TokenResult(sel)),
                        !.nCalls = @ + 1]
    ELSE IF r.phase = "retry"
         THEN Done([r EXCEPT !.sel = sel.f],
                   RetrySelectionFailure(SelectionErrorType(sel), r.first))
         ELSE Done([r EXCEPT !.sel = sel.f],
                   SelectionFailure(SelectionErrorType(sel)))

\* a faulty selection: the rotated cursor is not persisted
Commit_noPut(p, r, sel, cur, store) ==
    /\ rateLimits' = sel.limits
    /\ currentIndex' = IF Rotated(sel) THEN sel.f.idx ELSE cur
    /\ storage' = store
    /\ req' = [req EXCEPT ![p] = AfterSelection(r, sel)]

\* The state changes of a selection run that started from cursor cur and
\* persisted cursor store.
Commit(p, r, sel, cur, store) ==
    /\ rateLimits' = sel.limits
    /\ currentIndex' = IF Rotated(sel) THEN sel.f.idx ELSE cur
    /\ storage' = IF Rotated(sel) THEN sel.f.idx ELSE store
    /\ req' = [req EXCEPT ![p] = AfterSelection(r, sel)]

\* history: at the start of a selection every account is limited for flash
\* with its cooldown running, and none for pro
FlashOnlyLimited(limits) ==
    /\ credentials > 0
    /\ \A i \in Accounts :
          /\ MapHas(limits, i)
          /\ limits[i].flashLimited
          /\ ~limits[i].proLimited
          /\ now < limits[i].limitedUntil

\* getValidToken lines 287-296: the locals at the start of a selection
StartFrame(limits) ==
    [NoFrame EXCEPT !.now = now, !.flashOnly = FlashOnlyLimited(limits)]

\* the last probe of a frame, relabelled with the refresh answer
Relabel(f, outcome) ==
    [f EXCEPT !.probes = [@ EXCEPT ![Len(f.probes)] =
                             [@ EXCEPT !.outcome = outcome]]]

\* ------------------------------------------------------------------ actions
\* a faulty gate: requests are delivered while loadState is running
InputGateOpen_always == TRUE

\* constructor lines 52-55, fetch lines 93-95: blockConcurrencyWhile holds
\* every incoming request back until loadState has completed
InputGateOpen == initialized

\* GET /get-token?type=modelType arrives: handleGetToken up to its first
\* suspension
StartGetToken(p, modelType) ==
    /\ InputGateOpen
    /\ req[p].pc = "idle"
    /\ \A q \in Procs : q < p => req[q].pc # "idle"
    /\ Commit(p, [IdleReq EXCEPT !.kind = "getToken", !.phase = "getToken",
                                 !.modelType = modelType],
              getValidToken(modelType, StartFrame(rateLimits), rateLimits,
                            currentIndex,
                            lastReport),
              currentIndex, storage)
    /\ UNCHANGED <<initialized, boot, session,
                   credentials, clientConfigured, tokenCache, now, ticks,
                   lastReport, reportsMade>>

\* POST /proxy arrives: handleProxy up to its first suspension
StartProxy(p, modelId) ==
    /\ InputGateOpen
    /\ req[p].pc = "idle"
    /\ \A q \in Procs : q < p => req[q].pc # "idle"
    /\ Commit(p, [IdleReq EXCEPT !.kind = "proxy", !.phase = "first",
                                 !.modelType = ModelTypeOf(modelId)],
              getValidToken(ModelTypeOf(modelId), StartFrame(rateLimits),
                            rateLimits, currentIndex, lastReport),
              currentIndex, storage)
    /\ UNCHANGED <<initialized, boot, session,
                   credentials, clientConfigured, tokenCache, now, ticks,
                   lastReport, reportsMade>>

\* the authorization server answers 2xx to the refresh a selection awaits:
\* refreshToken 420-425, getOrRefreshToken 367-374, getValidToken 318-326
RefreshSucceeds(p, e) ==
    LET r == req[p]
        idx == r.sel.idx
        newToken == refreshToken(NewAccessToken(p, r), e)
        sel == [out |-> "token", f |-> Relabel(r.sel, "refreshed"),
                limits |-> rateLimits, token |-> newToken.accessToken]
    IN /\ r.pc = "sel_refresh"
       /\ tokenCache' = MapSet(tokenCache, idx, NewCacheEntry(idx, newToken))
       /\ Commit(p, [r EXCEPT !.issued = @ + 1], sel, currentIndex, storage)
       /\ UNCHANGED <<initialized, boot, session,
                      credentials, clientConfigured, now, ticks, lastReport, reportsMade>>

\* a faulty failure path: the failed refresh is not tallied
RefreshFails_uncounted(p) ==
    LET r == req[p]
        f == [Relabel(r.sel, "refresh_failed") EXCEPT !.attempt = @ + 1]
    IN /\ r.pc = "sel_refresh"
       /\ Commit(p, r,
                 getValidTokenLoop(r.modelType, f, rateLimits, currentIndex,
                                   lastReport),
                 currentIndex, storage)
       /\ UNCHANGED <<initialized, boot, session,
                      credentials, clientConfigured, tokenCache, now, ticks,
                      lastReport, reportsMade>>

\* a faulty failure path: the account's previous entry is dropped
RefreshFails_dropsEntry(p) ==
    LET r == req[p]
        f == [Relabel(r.sel, "refresh_failed") EXCEPT
                 !.attempt = @ + 1, !.tokenRefreshFailedCount = @ + 1]
    IN /\ r.pc = "sel_refresh"
       /\ tokenCache' = MapDelete(tokenCache, r.sel.idx)
       /\ Commit(p, r,
                 getValidTokenLoop(r.modelType, f, rateLimits, currentIndex,
                                   lastReport),
                 currentIndex, storage)
       /\ UNCHANGED <<initialized, boot, session,
                      credentials, clientConfigured, now, ticks,
                      lastReport, reportsMade>>

\* the refresh a selection awaits fails (non-2xx answer or network error):
\* refreshToken 414-418/426-429, getValidToken 327-329 and the loop onwards
RefreshFails(p) ==
    LET r == req[p]
        f == [Relabel(r.sel, "refresh_failed") EXCEPT
                 !.attempt = @ + 1, !.tokenRefreshFailedCount = @ + 1]
    IN /\ r.pc = "sel_refresh"
       /\ Commit(p, r,
                 getValidTokenLoop(r.modelType, f, rateLimits, currentIndex,
                                   lastReport),
                 currentIndex, storage)
       /\ UNCHANGED <<initialized, boot, session,
                      credentials, clientConfigured, tokenCache, now, ticks,
                      lastReport, reportsMade>>

\* a faulty report: the tracker is left as it was
Reported_notRecorded(limits, accountIndex, modelType) == limits

\* handleRateLimitReport lines 439-453: the tracker after a report
Reported(limits, accountIndex, modelType) ==
    MapSet(limits, accountIndex, ReportedEntry(limits, accountIndex, modelType))

NoteReport(reports, accountIndex, modelType) ==
    [reports EXCEPT ![<<accountIndex, modelType>>] = now]

\* accounts a report may name
ReportIndices == IF credentials = 0 THEN {0} ELSE Accounts

\* POST /report-rate-limit {accountIndex, modelType}: handleRateLimitReport
Report(accountIndex, modelType, maxReports) ==
    /\ InputGateOpen
    /\ reportsMade < maxReports
    /\ reportsMade' = reportsMade + 1
    /\ rateLimits' = Reported(rateLimits, accountIndex, modelType)
    /\ currentIndex' = RotatedIndex(accountIndex)
    /\ storage' = RotatedIndex(accountIndex)
    /\ lastReport' = NoteReport(lastReport, accountIndex, modelType)
    /\ UNCHANGED <<initialized, boot, session,
                   credentials, clientConfigured, tokenCache, now, ticks, req>>

\* the first upstream call answers 429 or 503: handleProxy 519-557, i.e. the
\* report against the account used, then the retry selection up to its
\* first suspension
UpstreamRateLimited(p, status) ==
    LET r == req[p]
        accountIndex == r.first.accountIndex
        limits == Reported(rateLimits, accountIndex, r.modelType)
        reports == NoteReport(lastReport, accountIndex, r.modelType)
    IN /\ r.pc = "call1"
       /\ status \in {429, 503}
       /\ lastReport' = reports
       /\ Commit(p, [r EXCEPT !.phase = "retry", !.reportedAt = now,
                              !.resp = << [status |-> status,
                                           body |-> UpstreamBody(1)] >>],
                 getValidToken(r.modelType, StartFrame(limits), limits,
                               RotatedIndex(accountIndex), reports),
                 RotatedIndex(accountIndex), RotatedIndex(accountIndex))
       /\ UNCHANGED <<initialized, boot, session,
                      credentials, clientConfigured, tokenCache, now, ticks,
                      reportsMade>>

\* a faulty eviction: the cache is left as it was
Evict_nothing(cache, accountIndex) == cache

\* a faulty invalidation: the whole cache is cleared
Evict_all(cache, accountIndex) == EmptyMap

\* handleProxy line 561
Evict(cache, accountIndex) == MapDelete(cache, accountIndex)

\* the first upstream call answers 401: handleProxy 559-563 and
\* getOrRefreshToken up to the refresh fetch.  A cache hit would retry at
\* once (564-572); with no usable client identity refreshToken returns null
\* at once and the 401 is passed through (581-589)
UpstreamUnauthorized(p) ==
    LET r == [req[p] EXCEPT !.phase = "retry401",
                            !.resp = << [status |-> 401,
                                         body |-> UpstreamBody(1)] >>,
                            !.evicted = req[p].first.token]
        accountIndex == r.first.accountIndex
        cache == Evict(tokenCache, accountIndex)
    IN /\ r.pc = "call1"
       /\ tokenCache' = cache
       /\ req' = [req EXCEPT ![p] =
                    IF CachedValidIn(cache, accountIndex)
                    THEN [r EXCEPT !.pc = "call2",
                                   !.fresh = cache[accountIndex].accessToken,
                                   !.call = FreshCall(r.first,
                                              cache[accountIndex].accessToken),
                                   !.nCalls = @ + 1]
                    ELSE IF clientConfigured
                    THEN [r EXCEPT !.pc = "refresh401"]
                    ELSE Done(r, PassThrough(r.resp[1], r.first))]
       /\ UNCHANGED <<initialized, boot, session,
                      credentials, clientConfigured, currentIndex, rateLimits,
                      storage, now, ticks, lastReport, reportsMade>>

\* the refresh after a 401 succeeds: getOrRefreshToken 367-374, then the
\* retried call of handleProxy 564-572
Refresh401Succeeds(p, e) ==
    LET r == req[p]
        idx == r.first.accountIndex
        newToken == refreshToken(NewAccessToken(p, r), e)
    IN /\ r.pc = "refresh401"
       /\ tokenCache' = MapSet(tokenCache, idx, NewCacheEntry(idx, newToken))
       /\ req' = [req EXCEPT ![p] =
                    [r EXCEPT !.pc = "call2", !.fresh = newToken.accessToken,
                              !.issued = @ + 1,
                              !.call = FreshCall(r.first, newToken.accessToken),
                              !.nCalls = @ + 1]]
       /\ UNCHANGED <<initialized, boot, session,
                      credentials, clientConfigured, currentIndex, rateLimits,
                      storage, now, ticks, lastReport, reportsMade>>

\* the refresh after a 401 fails: handleProxy falls through to 581-589
Refresh401Fails(p) ==
    LET r == req[p]
    IN /\ r.pc = "refresh401"
       /\ req' = [req EXCEPT ![p] =
                    Done(r, PassThrough(r.resp[1], r.first))]
       /\ UNCHANGED <<initialized, boot, session,
                      credentials, clientConfigured, currentIndex, tokenCache,
                      rateLimits, storage, now, ticks, lastReport, reportsMade>>

\* the first upstream call answers anything else: handleProxy 581-589
UpstreamOther(p, status) ==
    LET r == req[p]
        response == [status |-> status, body |-> UpstreamBody(1)]
    IN /\ r.pc = "call1"
       /\ status \notin {429, 503, 401}
       /\ req' = [req EXCEPT ![p] =
                    Done([r EXCEPT !.resp = << response >>],
                         PassThrough(response, r.first))]
       /\ UNCHANGED <<initialized, boot, session,
                      credentials, clientConfigured, currentIndex, tokenCache,
                      rateLimits, storage, now, ticks, lastReport, reportsMade>>

\* a faulty retry: a retried call that is refused is issued once more
AfterRetryAnswer_again(r, retryResponse) ==
    IF retryResponse.status \in {429, 503, 401}
    THEN [r EXCEPT !.nCalls = @ + 1]
    ELSE Done([r EXCEPT !.resp = Append(@, retryResponse)],
              RetryPassThrough(retryResponse))

\* a looping dispatcher: a retried call that is refused is treated like a
\* refused first call, so the dispatch selects and retries again
AfterRetryAnswer_loops(r, retryResponse) ==
    IF retryResponse.status \in {429, 503, 401}
    THEN [r EXCEPT !.pc = "call1", !.resp = << >>]
    ELSE Done([r EXCEPT !.resp = Append(@, retryResponse)],
              RetryPassThrough(retryResponse))

\* handleProxy 542-545 / 574-577: whatever the retried call answers is
\* returned
AfterRetryAnswer(r, retryResponse) ==
    Done([r EXCEPT !.resp = Append(@, retryResponse)],
         RetryPassThrough(retryResponse))

\* the retried upstream call answers
RetryAnswer(p, status) ==
    LET r == req[p]
        retryResponse == [status |-> status, body |-> UpstreamBody(2)]
    IN /\ r.pc = "call2"
       /\ req' = [req EXCEPT ![p] =
                    AfterRetryAnswer(r, retryResponse)]
       /\ UNCHANGED <<initialized, boot, session,
                      credentials, clientConfigured, currentIndex, tokenCache,
                      rateLimits, storage, now, ticks, lastReport, reportsMade>>

\* an upstream fetch (the first or the retried one) throws: handleProxy 590-596
UpstreamThrows(p) ==
    LET r == req[p]
    IN /\ r.pc \in {"call1", "call2"}
       /\ req' = [req EXCEPT ![p] = Done(r, ProxyFailed)]
       /\ UNCHANGED <<initialized, boot, session,
                      credentials, clientConfigured, currentIndex, tokenCache,
                      rateLimits, storage, now, ticks, lastReport, reportsMade>>

\* time passes: delta milliseconds, at most maxTicks times in a behaviour
Tick(delta, maxTicks) ==
    /\ ticks < maxTicks
    /\ ticks' = ticks + 1
    /\ now' = now + delta
    /\ lastReport' = [k \in DOMAIN lastReport |->
                        IF lastReport[k] # Undefined
                           /\ now + delta >= lastReport[k] + RATE_LIMIT_COOLDOWN
                        THEN Undefined ELSE lastReport[k]]
    /\ UNCHANGED <<initialized, boot, session,
                   credentials, clientConfigured, currentIndex, tokenCache,
                   rateLimits, storage, reportsMade, req>>

Next ==
    \/ \E p \in Procs, modelType \in ModelTypes : StartGetToken(p, modelType)
    \/ \E p \in Dispatchers, modelId \in ModelIds : StartProxy(p, modelId)
    \/ \E p \in Procs, e \in ExpiresInChoices : RefreshSucceeds(p, e)
    \/ \E p \in Procs : RefreshFails(p)
    \/ \E accountIndex \in ReportIndices, modelType \in ModelTypes :
          Report(accountIndex, modelType, MaxReports)
    \/ \E p \in Procs, status \in Statuses : UpstreamRateLimited(p, status)
    \/ \E p \in Procs : UpstreamUnauthorized(p)
    \/ \E p \in Procs, e \in ExpiresInChoices : Refresh401Succeeds(p, e)
    \/ \E p \in Procs : Refresh401Fails(p)
    \/ \E p \in Procs, status \in Statuses : UpstreamOther(p, status)
    \/ \E p \in Procs, status \in Statuses : RetryAnswer(p, status)
    \/ \E p \in Procs : UpstreamThrows(p)
    \/ \E delta \in TickChoices : Tick(delta, MaxTicks)

Spec == Init /\ [][Next]_vars

\* ------------------------------------------------------------ the claims
Last(q) == q[Len(q)]

\* request p's selection returns an account in this step
SelectionReturns(p) ==
    \/ req[p].pc # "call1" /\ req'[p].pc = "call1"
    \/ /\ req[p].pc \in {"call1", "sel_refresh"}
       /\ req'[p].pc = "call2"
       /\ req'[p].phase = "retry"
    \/ /\ req[p].pc # "done"
       /\ req'[p].pc = "done"
       /\ req'[p].kind = "getToken"
       /\ req'[p].res.errorType = "none"

\* request p's refresh after a 401 returns a token in this step
FreshReturns(p) == req[p].pc = "refresh401" /\ req'[p].pc = "call2"

OutsideBuffer(cached, t) == cached.expiryDate - TOKEN_BUFFER_TIME > t

\* C1: whenever getOrRefreshToken returns a token for an account (from the
\* cache or just refreshed, in a selection or after a 401), that token's
\* expiryDate minus the 5-minute buffer is strictly greater than the time of
\* the return.
C1_ReturnedTokenOutsideBuffer ==
    [][\A p \in Procs :
         /\ SelectionReturns(p) =>
               OutsideBuffer(tokenCache'[req'[p].sel.idx], now')
         /\ FreshReturns(p) =>
               OutsideBuffer(tokenCache'[req'[p].first.accountIndex], now')]_vars

\* C2: within one selection at most poolSize accounts are probed and no
\* account index is probed twice, whatever other requests do while the
\* selection is suspended on a refresh.
C2_NoIndexProbedTwice ==
    \A p \in Procs :
        LET probes == req[p].sel.probes
        IN /\ Len(probes) <= credentials
           /\ \A i, j \in 1 .. Len(probes) :
                 i # j => probes[i].idx # probes[j].idx

ProbesOf(r) == {r.sel.probes[i] : i \in 1 .. Len(r.sel.probes)}

\* every probe made so far by the selections in progress or just ended
AllProbes == UNION {ProbesOf(req[p]) : p \in Procs}

\* the same, of the selections that have probed no account twice
DistinctProbes ==
    UNION {ProbesOf(req[p]) :
           p \in {q \in Procs :
                    Cardinality(ProbesOf(req[q])) = Len(req[q].sel.probes)
                    /\ \A e, g \in ProbesOf(req[q]) : e.idx = g.idx => e = g}}

\* C3 (as claimed): a probe of account i for class c made at a time before
\* t + cooldown, t the time of the last report of (i, c), skips the account;
\* a probe made at a time >= the entry's limitedUntil does not skip it and
\* removes the entry.  (Stated of the selections that probe no account
\* twice.)
C3_LimitedUntilDeadlineThenNot ==
    \A e \in DistinctProbes :
        /\ e.cooling => e.outcome = "limited"
        /\ (e.had /\ e.expiredNow) => (e.outcome # "limited" /\ e.removed)

\* C3 (amended): a probe of account i for class c made at a time before
\* t + cooldown skips the account; a probe by a selection whose own start
\* time is >= the entry's limitedUntil does not skip it and removes the
\* entry.  No reset operation is involved.
C3_LimitedUntilDeadlineOfSelection ==
    \A e \in AllProbes :
        /\ e.cooling => e.outcome = "limited"
        /\ (e.had /\ e.expiredSel) => (e.outcome # "limited" /\ e.removed)
        /\ (e.outcome = "limited") => (e.had /\ e.flag /\ ~e.expiredSel)

C3_Witness ==
    /\ \E e \in AllProbes : e.cooling /\ e.outcome = "limited"
    /\ \E e \in AllProbes : e.flag /\ e.expiredSel /\ e.removed

\* the request ended because a selection returned no account
SelectionFailed(r) ==
    /\ r.pc = "done"
    /\ r.res.errorType \in {"no_credentials", "all_rate_limited",
                            "all_token_refresh_failed"}

\* C4: a selection that starts when every account is limited for flash
\* (cooldown running) and none for pro fails with all_rate_limited if it is
\* for flash, and if it is for pro it probes the cursor's account without
\* skipping it and returns it as soon as that account yields a token.
C4_ClassesLimitedIndependently ==
    \A p \in Procs :
        LET r == req[p]
        IN r.sel.flashOnly =>
             /\ r.modelType = "flash" =>
                   /\ r.pc = "done"
                   /\ r.res.errorType = "all_rate_limited"
                   /\ r.res.status = 429
             /\ r.modelType = "pro" =>
                   /\ Len(r.sel.probes) > 0
                   /\ r.sel.probes[1].outcome # "limited"
                   /\ r.sel.probes[1].outcome \in {"cached", "refreshed"} =>
                         /\ Len(r.sel.probes) = 1
                         /\ ~SelectionFailed(r)
                         /\ (r.phase = "retry" => r.retry.accountIndex
                                                    = r.sel.probes[1].idx)
                         /\ (r.phase # "retry" => r.first.accountIndex
                                                    = r.sel.probes[1].idx)

C4_Witness ==
    \E p, q \in Procs :
        /\ req[p].sel.flashOnly /\ req[p].modelType = "flash"
        /\ req[p].res.errorType = "all_rate_limited"
        /\ req[q].sel.flashOnly /\ req[q].modelType = "pro"
        /\ req[q].pc = "done" /\ req[q].kind = "getToken"
        /\ req[q].res.errorType = "none"

\* C5: when a selection returns no account its failure kind is
\* no_credentials iff the pool is empty; otherwise all_rate_limited iff
\* every probe skipped its account as rate-limited and these are all the
\* accounts of the pool, and all_token_refresh_failed iff at least one
\* probed account failed to yield a token (the mixed case included).
C5_FailureKind ==
    \A p \in Procs :
        LET r == req[p]
            skipped == {e \in ProbesOf(r) : e.outcome = "limited"}
            failed == {e \in ProbesOf(r) : e.outcome = "refresh_failed"}
        IN SelectionFailed(r) =>
             IF credentials = 0
             THEN r.res.errorType = "no_credentials"
             ELSE /\ r.res.errorType # "no_credentials"
                  /\ r.res.errorType = "all_rate_limited"
                       <=> /\ skipped = ProbesOf(r)
                           /\ {e.idx : e \in skipped} = Accounts
                  /\ r.res.errorType = "all_token_refresh_failed"
                       <=> failed # {}

C5_Witness ==
    \E p \in Procs :
        /\ SelectionFailed(req[p])
        /\ req[p].res.errorType = "all_token_refresh_failed"
        /\ \E e \in ProbesOf(req[p]) : e.outcome = "limited"

\* C6: when the first selection of a dispatch fails, the dispatch returns
\* without any upstream call, with status 429 for all_rate_limited, 500 for
\* all_token_refresh_failed and 500 for no_credentials.
C6_FirstSelectionFailureStatus ==
    \A p \in Procs :
        LET r == req[p]
        IN (r.kind = "proxy" /\ r.phase = "first" /\ SelectionFailed(r)) =>
             /\ r.nCalls = 0
             /\ r.res.errorType = "all_rate_limited" => r.res.status = 429
             /\ r.res.errorType = "all_token_refresh_failed" =>
                   r.res.status = 500
             /\ r.res.errorType = "no_credentials" => r.res.status = 500

\* C7: a dispatch issues at most two upstream calls, the second one a retry
\* either after a 429/503 or after a 401; whatever the retry answers (a
\* second 429, 503 or 401 included) ends the dispatch and is its response.
C7_AtMostOneRetry ==
    \A p \in Procs :
        LET r == req[p]
        IN /\ r.nCalls <= 2
           /\ Len(r.resp) <= r.nCalls
           /\ r.nCalls = 2 =>
                 \/ r.phase = "retry" /\ r.resp[1].status \in {429, 503}
                 \/ r.phase = "retry401" /\ r.resp[1].status = 401
           /\ Len(r.resp) = 2 =>
                 /\ r.pc = "done"
                 /\ r.res.status = r.resp[2].status
                 /\ r.res.body = r.resp[2].body

C7_Witness ==
    \E p \in Procs :
        /\ req[p].pc = "done"
        /\ Len(req[p].resp) = 2
        /\ req[p].resp[2].status \in {429, 503, 401}

\* the retry made after a 429/503 answers in this step and the dispatch
\* returns
RetryReturns(p) ==
    /\ req[p].pc = "call2"
    /\ req[p].phase = "retry"
    /\ req'[p].pc = "done"
    /\ Len(req'[p].resp) = 2

MarkedLimited(limits, accountIndex, modelType) ==
    /\ MapHas(limits, accountIndex)
    /\ IsLimitedFlag(limits[accountIndex], modelType)

\* C8 (as claimed): when the first call answered 429 or 503 and the retry
\* selection succeeded, then when the dispatch returns the retry was made
\* with another account than the first, the tracker holds an entry marking
\* the first account limited for the request's class, and the caller gets
\* the retry response's status and body.
C8_RetryOnOtherAccount ==
    [][\A p \in Procs :
         RetryReturns(p) =>
           /\ req'[p].retry.accountIndex # req'[p].first.accountIndex
           /\ MarkedLimited(rateLimits', req'[p].first.accountIndex,
                            req'[p].modelType)
           /\ req'[p].res.status = req'[p].resp[2].status
           /\ req'[p].res.body = UpstreamBody(2)]_vars

\* C8 (amended): the caller always gets the retry response's status and
\* body; and if the dispatch returns before the cooldown started by its own
\* report has elapsed, the retry was made with another account than the
\* first and the tracker holds an unexpired entry marking the first account
\* limited for the request's class.
C8_RetryOnOtherAccountWithinCooldown ==
    [][\A p \in Procs :
         RetryReturns(p) =>
           /\ req'[p].res.status = req'[p].resp[2].status
           /\ req'[p].res.body = UpstreamBody(2)
           /\ now' < req'[p].reportedAt + RATE_LIMIT_COOLDOWN =>
                 /\ req'[p].retry.accountIndex # req'[p].first.accountIndex
                 /\ MarkedLimited(rateLimits', req'[p].first.accountIndex,
                                  req'[p].modelType)
                 /\ now' < rateLimits'[req'[p].first.accountIndex].limitedUntil
      ]_vars

C8_Witness ==
    \E p \in Procs :
        /\ req[p].pc = "done" /\ req[p].phase = "retry"
        /\ Len(req[p].resp) = 2
        /\ req[p].resp[1].status = 429
        /\ req[p].res.status = 200
        /\ req[p].retry.accountIndex # req[p].first.accountIndex
        /\ now < req[p].reportedAt + RATE_LIMIT_COOLDOWN

\* the first upstream call of dispatch p answers 401 in this step
Gets401(p) == req[p].pc = "call1" /\ req'[p].phase = "retry401"

CachedTokens(cache) == {cache[i].accessToken : i \in DOMAIN cache}

\* C9: when the first upstream call answers 401, the entry of the account
\* used, and only that one, is removed from the cache and a refresh for the
\* same account is awaited (no cache hit, no reselection, cursor untouched);
\* when that refresh succeeds the one retried call carries the token just
\* obtained, for the same account, and that token is the account's cache
\* entry.
C9_UnauthorizedRefreshesSameAccount ==
    [][\A p \in Procs :
         /\ Gets401(p) =>
              /\ tokenCache' = MapDelete(tokenCache, req[p].first.accountIndex)
              /\ ~MapHas(tokenCache', req[p].first.accountIndex)
              /\ clientConfigured => req'[p].pc = "refresh401"
              /\ req'[p].nCalls = 1
              /\ req'[p].first = req[p].first
              /\ req'[p].sel.probes = req[p].sel.probes
              /\ currentIndex' = currentIndex
         /\ FreshReturns(p) =>
              /\ req'[p].nCalls = 2
              /\ req'[p].call.accountIndex = req[p].first.accountIndex
              /\ req'[p].call.token \notin CachedTokens(tokenCache)
              /\ req'[p].call.token # req[p].evicted
              /\ MapHas(tokenCache', req[p].first.accountIndex)
              /\ tokenCache'[req[p].first.accountIndex].accessToken
                    = req'[p].call.token]_vars

C9_Witness ==
    \E p \in Procs :
        /\ req[p].pc = "call2" /\ req[p].phase = "retry401"
        /\ req[p].call.token = req[p].fresh
        /\ req[p].call.token # req[p].evicted
        /\ MapHas(tokenCache, req[p].first.accountIndex)
        /\ tokenCache[req[p].first.accountIndex].accessToken = req[p].fresh

\* the refresh after a 401 fails in this step and the dispatch returns
FreshFails(p) == req[p].pc = "refresh401" /\ req'[p].pc = "done"

FailedCount(f) ==
    Cardinality({i \in 1 .. Len(f.probes) :
                   f.probes[i].outcome = "refresh_failed"})

\* getOrRefreshToken returns null to request p in this step: in the run that
\* starts p's handler, when the refresh a selection awaits fails, or when
\* the refresh after a 401 fails
RefreshFailureReturned(p) ==
    \/ req[p].pc = "idle" /\ FailedCount(req'[p].sel) > 0
    \/ req[p].pc = "sel_refresh"
         /\ FailedCount(req'[p].sel) > FailedCount(req[p].sel)
    \/ FreshFails(p)

\* C11: a step in which getOrRefreshToken returns null (the refresh failed:
\* network error, non-2xx answer, or client id/secret missing or
\* placeholder) leaves the token cache as it was: the account's previous
\* entry, if any, and every other account's entry keep their values.
C11_FailedRefreshKeepsCache ==
    [][\A p \in Procs : RefreshFailureReturned(p) => tokenCache' = tokenCache]_vars

C11_Witness ==
    \E p \in Procs :
        \E i \in 1 .. Len(req[p].sel.probes) :
            /\ req[p].sel.probes[i].outcome = "refresh_failed"
            /\ MapHas(tokenCache, req[p].sel.probes[i].idx)
            /\ ~CachedValid(req[p].sel.probes[i].idx)

\* an upstream call of dispatch p (the first or the retried one) throws in
\* this step: the call ends with no response received
CallThrows(p) ==
    /\ req[p].pc \in {"call1", "call2"}
    /\ req'[p].pc = "done"
    /\ req'[p].resp = req[p].resp

\* C17: when an upstream call of a dispatch throws, the dispatch returns a
\* 500 response with the structured proxy-failure error, and the step
\* records neither a rate limit nor a token invalidation: tracker, cache,
\* cursor and persisted cursor are left as they were.
C17_TransportFailureIs500 ==
    [][\A p \in Procs :
         CallThrows(p) =>
           /\ req'[p].res.status = 500
           /\ req'[p].res.errorType = "proxy_failed"
           /\ req'[p].nCalls = req[p].nCalls
           /\ rateLimits' = rateLimits
           /\ lastReport' = lastReport
           /\ tokenCache' = tokenCache
           /\ currentIndex' = currentIndex
           /\ storage' = storage]_vars

C17_Witness ==
    \E p \in Procs :
        /\ req[p].pc = "done"
        /\ req[p].res.errorType = "proxy_failed"
        /\ req[p].phase = "retry"
        /\ req[p].nCalls = 2
        /\ Len(req[p].resp) = 1

\* ------------------------------------------------- a restored cursor
\* loadState lines 80-84 after a restart with a smaller pool: the earlier
\* instance had MaxPool + 1 accounts and persisted its cursor on the last
\* one; this instance loads MaxPool accounts.
InitRestored ==
    /\ credentials = MaxPool
    /\ clientConfigured = TRUE
    /\ storage = MaxPool
    /\ currentIndex = loadState(storage)
    /\ tokenCache = EmptyMap
    /\ rateLimits = EmptyMap
    /\ now = 0
    /\ ticks = 0
    /\ lastReport = [k \in (0 .. MaxPool) \X ModelTypes |-> Undefined]
    /\ reportsMade = 0
    /\ req = [p \in Procs |-> IdleReq]
    /\ initialized = TRUE
    /\ boot = Booted(credentials)
    /\ session = NoSession

SpecRestored == InitRestored /\ [][Next]_vars

\* C12: whenever the pool is not empty, currentIndex is an integer in
\* [0, poolSize): after initialization (a restored cursor included), after
\* every selection and after every report.
C12_CursorInRange ==
    credentials > 0 => currentIndex \in 0 .. (credentials - 1)

\* ----------------------------------------------- the cursor of a selection
\* request p's selection runs in this step and nothing else of its handler
\* does: getValidToken from its entry or from the answer of a refresh
SelectionRuns(p) ==
    /\ req[p].pc \in {"idle", "sel_refresh"}
    /\ req'[p] # req[p]

\* the selection of request p ends in this step without an account
SelectionFails(p) ==
    /\ SelectionRuns(p)
    /\ req'[p].pc = "done"
    /\ req'[p].res.errorType # "none"

CursorWritten(idx) == currentIndex' = idx /\ storage' = idx
CursorUntouched == currentIndex' = currentIndex /\ storage' = storage

\* C21 as stated: a selection that returns writes the cursor (and persists
\* it) exactly when the returned account is not the account it probed
\* first; a failing selection writes nothing.
C21_CursorMovesToOtherAccount ==
    [][\A p \in Procs :
         /\ (SelectionRuns(p) /\ SelectionReturns(p)) =>
               LET sel == req'[p].sel
               IN IF sel.idx # sel.probes[1].idx
                  THEN CursorWritten(sel.idx)
                  ELSE CursorUntouched
         /\ SelectionFails(p) => CursorUntouched]_vars

\* --------------------------------------------- refreshes of a selection
\* the probes of a selection for which the refresher was called
RefreshCalls(sel) ==
    {k \in 1 .. Len(sel.probes) :
        sel.probes[k].outcome \in {"refreshing", "refreshed", "refresh_failed"}}

\* the tracker holds an unexpired limit of the class on the account
LimitedAt(limits, idx, modelType, t) ==
    /\ MapHas(limits, idx)
    /\ IF modelType = "pro" THEN limits[idx].proLimited
                            ELSE limits[idx].flashLimited
    /\ t < limits[idx].limitedUntil

\* C22: a selection waits for a refresh only of an account that is neither
\* skipped as limited nor holding a valid cached token; a selection that
\* returns without a refresh answer returns the valid cached token of its
\* account and leaves the cache as it was; no probe that skipped an account
\* called the refresher.
C22_NoRefreshForSkippedOrCached ==
    [][\A p \in Procs :
         LET r == req'[p]
         IN /\ (SelectionRuns(p) /\ r.pc = "sel_refresh") =>
                  /\ ~LimitedAt(rateLimits', r.sel.idx, r.modelType, r.sel.now)
                  /\ ~(/\ MapHas(tokenCache, r.sel.idx)
                       /\ OutsideBuffer(tokenCache[r.sel.idx], now))
            /\ (/\ SelectionRuns(p)
                /\ SelectionReturns(p)
                /\ Last(r.sel.probes).outcome = "cached") =>
                  /\ MapHas(tokenCache, r.sel.idx)
                  /\ OutsideBuffer(tokenCache[r.sel.idx], now)
                  /\ r.first.token = tokenCache[r.sel.idx].accessToken
                  /\ tokenCache' = tokenCache
            /\ SelectionRuns(p) =>
                  \A k \in 1 .. Len(r.sel.probes) :
                     LET probe == r.sel.probes[k]
                     IN /\ (probe.flag /\ ~probe.expiredSel) =>
                              probe.outcome = "limited"
                        /\ probe.outcome = "limited" =>
                              k \notin RefreshCalls(r.sel)]_vars

\* three accounts, accounts 0 and 1 limited for flash, account 2 holding a
\* valid cached token: a flash selection has skipped a limited account and
\* returned account 2 without any refresh call
C22_Witness ==
    \E p \in Procs :
        /\ credentials = 3
        /\ req[p].pc = "done"
        /\ req[p].modelType = "flash"
        /\ req[p].res.errorType = "none"
        /\ req[p].first.accountIndex = 2
        /\ RefreshCalls(req[p].sel) = {}
        /\ Len(req[p].sel.probes) = 2
        /\ req[p].sel.probes[1].outcome = "limited"
        /\ \A i \in {0, 1} : LimitedAt(rateLimits, i, "flash", req[p].sel.now)
        /\ MapHas(tokenCache, 2)
        /\ req[p].first.token = tokenCache[2].accessToken

\* ------------------------------------------------ the shared deadline
\* handleRateLimitReport runs in this step for account accountIndex and
\* class modelType: posted from outside, or called by the dispatcher of
\* request p after a 429/503 (handleProxy lines 519-528)
ReportOn(accountIndex, modelType) ==
    \/ /\ reportsMade' = reportsMade + 1
       /\ lastReport' = NoteReport(lastReport, accountIndex, modelType)
       /\ currentIndex' = RotatedIndex(accountIndex)
    \/ \E p \in Procs :
          /\ req[p].pc = "call1"
          /\ req'[p].phase = "retry"
          /\ req[p].first.accountIndex = accountIndex
          /\ req[p].modelType = modelType

\* C23: a report on account i sets the one deadline of the account to
\* now + cooldown and the reported class's flag; a flag of either class set
\* before is kept, and a class whose own report is less than a cooldown old
\* is limited under the new deadline.
C23_ReportSharesDeadline ==
    [][\A accountIndex \in 0 .. MaxPool, modelType \in ModelTypes :
         ReportOn(accountIndex, modelType) =>
            /\ MapHas(rateLimits', accountIndex)
            /\ rateLimits'[accountIndex].limitedUntil
                  = now + RATE_LIMIT_COOLDOWN
            /\ IsLimitedFlag(rateLimits'[accountIndex], modelType)
            /\ \A other \in ModelTypes :
                  /\ (/\ MapHas(rateLimits, accountIndex)
                      /\ IsLimitedFlag(rateLimits[accountIndex], other)) =>
                        IsLimitedFlag(rateLimits'[accountIndex], other)
                  /\ (/\ lastReport[<<accountIndex, other>>] # Undefined
                      /\ now < lastReport[<<accountIndex, other>>]
                                  + RATE_LIMIT_COOLDOWN) =>
                        LimitedAt(rateLimits', accountIndex, other, now)]_vars

\* an account reported for one class and, later but within the cooldown,
\* for the other: both classes are limited until the later deadline
C23_Witness ==
    \E accountIndex \in 0 .. MaxPool :
        /\ lastReport[<<accountIndex, "pro">>] # Undefined
        /\ lastReport[<<accountIndex, "flash">>] # Undefined
        /\ lastReport[<<accountIndex, "pro">>]
              # lastReport[<<accountIndex, "flash">>]
        /\ MapHas(rateLimits, accountIndex)
        /\ rateLimits[accountIndex].proLimited
        /\ rateLimits[accountIndex].flashLimited
        /\ \E modelType \in ModelTypes :
              /\ rateLimits[accountIndex].limitedUntil
                    = lastReport[<<accountIndex, modelType>>]
                         + RATE_LIMIT_COOLDOWN
              /\ \A other \in ModelTypes :
                    lastReport[<<accountIndex, other>>]
                       <= lastReport[<<accountIndex, modelType>>]

\* ------------------------------------------------- removal from the cache
\* the entries the cache loses in this step
Removed == (DOMAIN tokenCache) \ (DOMAIN tokenCache')

\* C24: whenever the token cache loses an entry, the step is a dispatcher
\* receiving a 401 on its first call, and the entry lost is the one of the
\* account that call was made with; nothing else is lost.
C24_OnlyUnauthorizedEvicts ==
    [][Removed # {} =>
          \E p \in Procs :
             /\ Gets401(p)
             /\ Removed = {req[p].first.accountIndex}]_vars

\* a 401 has evicted the entry of its account while the entry of another
\* account is still cached
C24_Witness ==
    \E p \in Procs :
        /\ req[p].phase = "retry401"
        /\ req[p].pc = "refresh401"
        /\ ~MapHas(tokenCache, req[p].first.accountIndex)
        /\ DOMAIN tokenCache # {}

\* ------------------------------------------------ the client identity
\* part_002 lines 2-3: the defaults compiled into the worker
OAUTH_CLIENT_ID == "YOUR_CLIENT_ID"
OAUTH_CLIENT_SECRET == "YOUR_CLIENT_SECRET"

\* what the environment may hold for either secret ("" stands for unset)
EnvClientIds == {"", OAUTH_CLIENT_ID, "client-id"}
EnvClientSecrets == {"", OAUTH_CLIENT_SECRET, "client-secret"}

\* refreshToken lines 387-388: this.env.X || X
Resolved(envValue, default) == IF envValue # "" THEN envValue ELSE default

\* a faulty validation: whatever is resolved is sent to the server
Configured_unchecked(envClientId, envClientSecret) == TRUE

\* refreshToken lines 390-398: both resolved values are set and neither is
\* the placeholder
Configured(envClientId, envClientSecret) ==
    LET clientId == Resolved(envClientId, OAUTH_CLIENT_ID)
        clientSecret == Resolved(envClientSecret, OAUTH_CLIENT_SECRET)
    IN /\ ~(clientId = "" \/ clientId = "YOUR_CLIENT_ID")
       /\ ~(clientSecret = "" \/ clientSecret = "YOUR_CLIENT_SECRET")

\* loadState has returned in an environment with the given client secrets
BootedWith(n, envClientId, envClientSecret) ==
    [secrets |-> n, pc |-> "returned",
     OAUTH_CLIENT_ID |-> envClientId,
     OAUTH_CLIENT_SECRET |-> envClientSecret]

InitClient ==
    /\ credentials \in 0 .. MaxPool
    /\ \E envClientId \in EnvClientIds, envClientSecret \in EnvClientSecrets :
          /\ boot = BootedWith(credentials, envClientId, envClientSecret)
          /\ clientConfigured = Configured(envClientId, envClientSecret)
    /\ storage \in StoredChoices
    /\ currentIndex = loadState(storage)
    /\ tokenCache = EmptyMap
    /\ rateLimits = EmptyMap
    /\ now = 0
    /\ ticks = 0
    /\ lastReport = [k \in (0 .. MaxPool) \X ModelTypes |-> Undefined]
    /\ reportsMade = 0
    /\ req = [p \in Procs |-> IdleReq]
    /\ initialized = TRUE
    /\ session = NoSession

SpecClient == InitClient /\ [][Next]_vars

\* the environment leaves the client identity or the client secret unset or
\* at its placeholder
Unconfigured ==
    \/ boot.OAUTH_CLIENT_ID \in {"", "YOUR_CLIENT_ID"}
    \/ boot.OAUTH_CLIENT_SECRET \in {"", "YOUR_CLIENT_SECRET"}

\* no request is waiting for the authorization server or for the upstream
\* API, and none has been
NoNetworkCall ==
    \A p \in Procs :
        /\ req[p].pc \notin {"sel_refresh", "refresh401", "call1", "call2"}
        /\ req[p].nCalls = 0
        /\ req[p].issued = 0
        /\ \A k \in 1 .. Len(req[p].sel.probes) :
              req[p].sel.probes[k].outcome \in {"limited", "refresh_failed"}

\* C25 as stated: with the client identity unconfigured no network call is
\* made, nothing is ever cached, and every selection over a non-empty pool
\* fails with all_token_refresh_failed.
C25_UnconfiguredFailsRefresh ==
    Unconfigured =>
        /\ NoNetworkCall
        /\ tokenCache = EmptyMap
        /\ \A p \in Procs :
              (req[p].pc = "done" /\ credentials > 0) =>
                 /\ req[p].res.errorType = "all_token_refresh_failed"
                 /\ req[p].res.status = 500

\* every probe of the selection skipped its account as rate-limited
AllSkipped(sel) ==
    /\ Len(sel.probes) = credentials
    /\ \A k \in 1 .. Len(sel.probes) : sel.probes[k].outcome = "limited"

\* C25 amended: with the client identity unconfigured no network call is
\* made and nothing is ever cached; a selection over a non-empty pool fails
\* with all_token_refresh_failed (status 500) if it reached at least one
\* account that is not rate-limited for its class, and with
\* all_rate_limited (status 429) if it skipped every account.
C25_UnconfiguredFailsRefreshUnlessAllLimited ==
    Unconfigured =>
        /\ NoNetworkCall
        /\ tokenCache = EmptyMap
        /\ \A p \in Procs :
              (req[p].pc = "done" /\ credentials > 0) =>
                 IF AllSkipped(req[p].sel)
                 THEN /\ req[p].res.errorType = "all_rate_limited"
                      /\ req[p].res.status = 429
                 ELSE /\ req[p].res.errorType = "all_token_refresh_failed"
                      /\ req[p].res.status = 500
                      /\ \E k \in 1 .. Len(req[p].sel.probes) :
                            req[p].sel.probes[k].outcome = "refresh_failed"

\* an unset client identity: a selection went through the whole pool and
\* failed on the refreshes without a network call
C25_Witness ==
    /\ boot.OAUTH_CLIENT_ID = ""
    /\ boot.OAUTH_CLIENT_SECRET = "client-secret"
    /\ credentials = MaxPool
    /\ \E p \in Procs :
          /\ req[p].pc = "done"
          /\ req[p].res.errorType = "all_token_refresh_failed"
          /\ Len(req[p].sel.probes) = credentials
          /\ \A k \in 1 .. Len(req[p].sel.probes) :
                req[p].sel.probes[k].outcome = "refresh_failed"

\* ------------------------------------------------------- pass-through
\* the first upstream call of request p answers in this step with a status
\* that is neither a rate limit nor an authorization failure
OtherAnswer(p) ==
    /\ req[p].pc = "call1"
    /\ req'[p].pc = "done"
    /\ Len(req'[p].resp) = 1
    /\ req'[p].resp[1].status \notin {429, 503, 401}

C30_CallCarriesProjectOfItsAccount ==
    \A p \in Procs :
        req[p].pc \in {"call1", "call2"} =>
            /\ req[p].call.accountIndex \in Accounts
            /\ req[p].call.project = ProjectOf(req[p].call.accountIndex)

\* ------------------------------------------------------------ termination
\* a network call request p is waiting for completes, successfully or not:
\* the token endpoint (refreshToken lines 386-430) or the upstream API
\* (handleProxy lines 506, 533, 565)
Completes(p) ==
    \/ \E e \in ExpiresInChoices : RefreshSucceeds(p, e)
    \/ RefreshFails(p)
    \/ \E status \in Statuses : UpstreamRateLimited(p, status)
    \/ UpstreamUnauthorized(p)
    \/ \E e \in ExpiresInChoices : Refresh401Succeeds(p, e)
    \/ Refresh401Fails(p)
    \/ \E status \in Statuses : UpstreamOther(p, status)
    \/ \E status \in Statuses : RetryAnswer(p, status)
    \/ UpstreamThrows(p)

\* one request at a time is followed to its response, with reports and the
\* clock interleaved at its awaits
NextLive ==
    \/ \E p \in Dispatchers, modelType \in ModelTypes : StartGetToken(p, modelType)
    \/ \E p \in Dispatchers, modelId \in ModelIds : StartProxy(p, modelId)
    \/ \E p \in Dispatchers : Completes(p)
    \/ \E accountIndex \in ReportIndices, modelType \in ModelTypes :
          Report(accountIndex, modelType, MaxReports)
    \/ \E delta \in TickChoices : Tick(delta, MaxTicks)

\* every token refresh and every upstream call eventually completes
Fairness == \A p \in Dispatchers : WF_vars(Completes(p))

SpecLive == Init /\ [][NextLive]_vars /\ Fairness

\* C19: every request that has been taken up eventually has its response;
\* meanwhile a selection never makes more probes than there are accounts and
\* a dispatch never issues more than two upstream calls.
C19_EveryDispatchReturns ==
    /\ \A p \in Dispatchers : (req[p].pc # "idle") ~> (req[p].pc = "done")
    /\ [](\A p \in Dispatchers :
             /\ Len(req[p].sel.probes) <= credentials
             /\ req[p].sel.attempt <= credentials
             /\ req[p].nCalls <= 2)

\* a dispatch that returned after its retry was refused as well, its
\* selections having probed every account
C19_Witness ==
    \E p \in Dispatchers :
        /\ req[p].pc = "done"
        /\ req[p].kind = "proxy"
        /\ req[p].nCalls = 2
        /\ Len(req[p].resp) = 2
        /\ req[p].resp[1].status \in {429, 503}
        /\ req[p].resp[2].status \in {429, 503}
        /\ Len(req[p].sel.probes) = credentials
        /\ credentials = MaxPool

\* ------------------------------------------- a report, then a selection
\* One account more than MaxPool, so that besides the reported account and
\* its successor there is a third one.
RotationPool == MaxPool + 1

InitRotation ==
    /\ credentials = RotationPool
    /\ clientConfigured = TRUE
    /\ storage \in StoredChoices
    /\ currentIndex = loadState(storage)
    /\ tokenCache = EmptyMap
    /\ rateLimits = EmptyMap
    /\ now = 0
    /\ ticks = 0
    /\ lastReport = [k \in (0 .. RotationPool) \X ModelTypes |-> Undefined]
    /\ reportsMade = 0
    /\ req = [p \in Procs |-> IdleReq]
    /\ initialized = TRUE
    /\ boot = Booted(credentials)
    /\ session = NoSession

\* POST /report-rate-limit {accountIndex, reportedType} is handled
\* (handleRateLimitReport, lines 435-464) and GET /get-token?type=modelType
\* is the very next request delivered: handleGetToken up to its first
\* suspension, run on the tracker and the cursor the report left.
ReportThenGetToken(p, accountIndex, reportedType, modelType, maxReports) ==
    LET limits == Reported(rateLimits, accountIndex, reportedType)
        reports == NoteReport(lastReport, accountIndex, reportedType)
        rotatedTo == RotatedIndex(accountIndex)
    IN /\ InputGateOpen
       /\ reportsMade < maxReports
       /\ req[p].pc = "idle"
       /\ \A q \in Procs : q < p => req[q].pc # "idle"
       /\ reportsMade' = reportsMade + 1
       /\ lastReport' = reports
       /\ Commit(p, [IdleReq EXCEPT !.kind = "getToken", !.phase = "getToken",
                                    !.modelType = modelType,
                                    !.after = accountIndex],
                 getValidToken(modelType, StartFrame(limits), limits,
                               rotatedTo, reports),
                 rotatedTo, rotatedTo)
       /\ UNCHANGED <<initialized, boot, session, credentials,
                      clientConfigured, tokenCache, now, ticks>>

\* reports in one behaviour of the rotation scenario
RotationReports == MaxReports + 1

NextRotation ==
    \/ \E p \in Procs, accountIndex \in ReportIndices,
          reportedType \in ModelTypes, modelType \in ModelTypes :
          ReportThenGetToken(p, accountIndex, reportedType, modelType,
                             RotationReports)
    \/ \E p \in Procs, modelType \in ModelTypes : StartGetToken(p, modelType)
    \/ \E p \in Procs, e \in ExpiresInChoices : RefreshSucceeds(p, e)
    \/ \E p \in Procs : RefreshFails(p)
    \/ \E accountIndex \in ReportIndices, modelType \in ModelTypes :
          Report(accountIndex, modelType, RotationReports)

SpecRotation == InitRotation /\ [][NextRotation]_vars

\* a report alone is handled in this step
ReportHandled ==
    /\ reportsMade' = reportsMade + 1
    /\ req' = req

\* the accounts a selection has probed
ProbedIndices(sel) == {sel.probes[k].idx : k \in 1 .. Len(sel.probes)}

\* C20: a report against account i leaves the cursor and the persisted
\* cursor at (i + 1) mod poolSize; the selection started right after it
\* probes that account first, and if it returns account i then it has
\* probed every other account before.
C20_ReportRotatesCursor ==
    /\ [][ReportHandled =>
             /\ storage' = currentIndex'
             /\ \E accountIndex \in Accounts, modelType \in ModelTypes :
                   /\ currentIndex' = (accountIndex + 1) % credentials
                   /\ MapHas(rateLimits', accountIndex)
                   /\ IsLimitedFlag(rateLimits'[accountIndex], modelType)
                   /\ rateLimits'[accountIndex].limitedUntil
                         = now + RATE_LIMIT_COOLDOWN
                   /\ lastReport'[<<accountIndex, modelType>>] = now]_vars
    /\ [](\A p \in Procs :
             LET r == req[p]
             IN r.after # NaN =>
                  /\ Len(r.sel.probes) > 0 =>
                        r.sel.probes[1].idx = (r.after + 1) % credentials
                  /\ (/\ r.pc = "done"
                      /\ r.res.errorType = "none"
                      /\ r.first.accountIndex = r.after) =>
                        Accounts \ {r.after} \subseteq ProbedIndices(r.sel))

\* --------------------------------------------------------- a cold start
\* The object has just been constructed (field initialisers, lines 42-46)
\* with MaxPool credential secrets in its environment and a cursor persisted
\* by an earlier instance; the constructor's loadState has not run yet.
InitColdStart ==
    /\ initialized = FALSE
    /\ boot = [secrets |-> MaxPool, pc |-> "start"]
    /\ credentials = 0
    /\ currentIndex = 0
    /\ storage = 1
    /\ clientConfigured = TRUE
    /\ tokenCache = EmptyMap
    /\ rateLimits = EmptyMap
    /\ now = 0
    /\ ticks = 0
    /\ lastReport = [k \in (0 .. MaxPool) \X ModelTypes |-> Undefined]
    /\ reportsMade = 0
    /\ req = [p \in Procs |-> IdleReq]
    /\ session = NoSession

\* loadState lines 62-81: the credentials are read from the environment and
\* the read of the persisted cursor is issued
LoadCredentials ==
    /\ boot.pc = "start"
    /\ credentials' = boot.secrets
    /\ boot' = [boot EXCEPT !.pc = "storage.get"]
    /\ UNCHANGED <<initialized, session, clientConfigured, currentIndex,
                   tokenCache, rateLimits, storage, now, ticks, lastReport,
                   reportsMade, req>>

\* loadState lines 81-86: the persisted cursor arrives and is restored
RestoreCursor ==
    /\ boot.pc = "storage.get"
    /\ currentIndex' = loadState(storage)
    /\ initialized' = TRUE
    /\ boot' = [boot EXCEPT !.pc = "returned"]
    /\ UNCHANGED <<session, credentials, clientConfigured, tokenCache,
                   rateLimits, storage, now, ticks, lastReport, reportsMade,
                   req>>

NextColdStart ==
    \/ LoadCredentials
    \/ RestoreCursor
    \/ Next

SpecColdStart == InitColdStart /\ [][NextColdStart]_vars

\* C18: while initialization has not completed no handler acts (no request
\* leaves its slot, no report is taken, cache and tracker are untouched), so
\* requests arriving meanwhile are served only afterwards; and a step of
\* loadState is only taken while nothing has been served yet, so it
\* overwrites nothing a request has changed.
C18_NothingServedBeforeInitialized ==
    [][/\ ~initialized =>
            /\ req' = req
            /\ reportsMade' = reportsMade
            /\ tokenCache' = tokenCache
            /\ rateLimits' = rateLimits
            /\ storage' = storage
       /\ boot' # boot =>
            /\ \A p \in Procs : req[p].pc = "idle"
            /\ reportsMade = 0
            /\ tokenCache = EmptyMap
            /\ rateLimits = EmptyMap]_vars

\* a request served after a cold start from the restored cursor
C18_Witness ==
    /\ initialized
    /\ boot.pc = "returned"
    /\ reportsMade = 0
    /\ \E p \in Procs :
          /\ req[p].pc = "done"
          /\ req[p].res.errorType = "none"
          /\ req[p].sel.attempt = 0
          /\ req[p].first.accountIndex = storage
          /\ storage # 0

\* ------------------------------------------------------ stream translator
\* handleStreamingRequest: the upstream body is a sequence of text fragments,
\* and a chunk is any run of consecutive fragments.  A data line of the
\* upstream event stream is  "da" "ta: " <payload fragments> "\n".
MaxLines == 3       \* upstream lines of one translation session

LF == "\n"
CR == "\r"
DataPrefix == <<"da", "ta: ">>
DonePayload == "[DONE]"
OpenMarker == "<thinking>"
CloseMarker == "</thinking>"

\* the JSON values an upstream event is made of
NoUsage == [present |-> FALSE, promptTokenCount |-> Undefined,
            candidatesTokenCount |-> Undefined]
UsageMetadata(promptTokenCount, candidatesTokenCount) ==
    [present |-> TRUE, promptTokenCount |-> promptTokenCount,
     candidatesTokenCount |-> candidatesTokenCount]
TextPart(text, thought) == [text |-> text, thought |-> thought]
\* a candidate with its parts under content.parts
ContentCandidate(parts, finishReason) ==
    [content |-> [present |-> TRUE, parts |-> parts], parts |-> << >>,
     finishReason |-> finishReason]
\* a candidate with its parts directly under parts
PartsCandidate(parts, finishReason) ==
    [content |-> [present |-> FALSE, parts |-> << >>], parts |-> parts,
     finishReason |-> finishReason]
NoResponse == [present |-> FALSE, candidates |-> << >>, usageMetadata |-> NoUsage]
\* {candidates, usageMetadata}
FlatEvent(candidates, usageMetadata) ==
    [hasCandidates |-> TRUE, candidates |-> candidates,
     usageMetadata |-> usageMetadata, response |-> NoResponse]
\* {usageMetadata} alone
UsageEvent(usageMetadata) ==
    [hasCandidates |-> FALSE, candidates |-> << >>,
     usageMetadata |-> usageMetadata, response |-> NoResponse]
\* {response: {candidates, usageMetadata}}
NestedEvent(candidates, usageMetadata) ==
    [hasCandidates |-> FALSE, candidates |-> << >>, usageMetadata |-> NoUsage,
     response |-> [present |-> TRUE, candidates |-> candidates,
                   usageMetadata |-> usageMetadata]]

\* the JSON texts explored, each without its closing brace
EventOpens == {"{text", "{thought", "{mixed", "{usage", "{nested", "{cut"}

\* line 219: JSON.parse of a payload that is one of these texts followed by
\* its closing brace
ParsedEvent(open) ==
    CASE open = "{text" ->
           NestedEvent(<< ContentCandidate(<< TextPart("a", FALSE) >>, "") >>,
                       NoUsage)
      [] open = "{thought" ->
           NestedEvent(<< ContentCandidate(<< TextPart("t", TRUE) >>, "") >>,
                       NoUsage)
      [] open = "{mixed" ->
           FlatEvent(<< PartsCandidate(<< TextPart("u", TRUE),
                                          TextPart("", FALSE),
                                          TextPart("b", FALSE) >>, "STOP") >>,
                     NoUsage)
      [] open = "{usage" ->
           UsageEvent(UsageMetadata(3, Undefined))
      [] open = "{nested" ->
           NestedEvent(<< ContentCandidate(<< TextPart("c", FALSE) >>,
                                           "STOP") >>,
                       UsageMetadata(1, 2))
      [] open = "{cut" ->
           FlatEvent(<< ContentCandidate(<< TextPart("", TRUE) >>,
                                         "MAX_TOKENS") >>, NoUsage)

\* line 219: does JSON.parse(data) return an object
Parses(data) == Len(data) = 2 /\ data[1] \in EventOpens /\ data[2] = "}"

\* the events the translator enqueues; src is the upstream line they come from
NoSummary == [present |-> FALSE, prompt_tokens |-> 0, completion_tokens |-> 0,
              total_tokens |-> 0]
\* lines 240-252 and 287-298
ContentChunk(content, src) ==
    [type |-> "chunk", content |-> content, finish_reason |-> "null",
     usage |-> NoSummary, src |-> src]
\* lines 260-276
FinalChunk(usage, src) ==
    [type |-> "chunk", content |-> << >>, finish_reason |-> "stop",
     usage |-> usage, src |-> src]
\* lines 214 and 300
DoneLine(src) ==
    [type |-> "done", content |-> << >>, finish_reason |-> "null",
     usage |-> NoSummary, src |-> src]

\* line 207: text.split("\n")
RECURSIVE Split(_)
Split(text) ==
    IF \A i \in 1 .. Len(text) : text[i] # LF
    THEN << text >>
    ELSE LET i == CHOOSE k \in 1 .. Len(text) :
                     text[k] = LF /\ \A j \in 1 .. (k - 1) : text[j] # LF
         IN << SubSeq(text, 1, i - 1) >> \o Split(SubSeq(text, i + 1, Len(text)))

\* line 211: line.startsWith("data: ")
StartsWithData(line) ==
    Len(line) >= Len(DataPrefix) /\ SubSeq(line, 1, Len(DataPrefix)) = DataPrefix

\* line 212: String.trim
RECURSIVE Trim(_)
Trim(data) ==
    IF data # << >> /\ Head(data) = CR THEN Trim(Tail(data))
    ELSE IF data # << >> /\ data[Len(data)] = CR
    THEN Trim(SubSeq(data, 1, Len(data) - 1))
    ELSE data

\* line 220
CandidatesOf(parsed) ==
    IF parsed.hasCandidates THEN parsed.candidates
    ELSE IF parsed.response.present THEN parsed.response.candidates
    ELSE << >>

\* line 223
PartsOf(candidate) ==
    IF candidate.content.present THEN candidate.content.parts
    ELSE candidate.parts

\* lines 222-224: the parts in the order the two loops visit them
RECURSIVE AllParts(_)
AllParts(candidates) ==
    IF candidates = << >> THEN << >>
    ELSE PartsOf(Head(candidates)) \o AllParts(Tail(candidates))

\* line 225: if (part.text)
HasText(part) == part.text # ""

\* a faulty translator: every text is emitted bare, the thinking segment is
\* neither opened nor closed
EmitParts_noMarkers(parts, isInThinking, out, streamThinkingAsContent, src) ==
    LET texts == SelectSeq(parts, HasText)
    IN [isInThinking |-> isInThinking,
        out |-> out \o [k \in 1 .. Len(texts) |->
                          ContentChunk(<< texts[k].text >>, src)]]

\* lines 225-253, for the parts of one event
RECURSIVE EmitParts(_, _, _, _, _)
EmitParts(parts, isInThinking, out, streamThinkingAsContent, src) ==
    IF parts = << >>
    THEN [isInThinking |-> isInThinking, out |-> out]
    ELSE
      LET part == Head(parts)
          isThinkingPart == part.thought
          opens == isThinkingPart /\ streamThinkingAsContent /\ ~isInThinking
          closes == /\ ~(isThinkingPart /\ streamThinkingAsContent)
                    /\ isInThinking /\ ~isThinkingPart
          content == IF opens THEN << OpenMarker, part.text >>
                     ELSE IF closes THEN << CloseMarker, part.text >>
                     ELSE << part.text >>
      IN IF part.text = ""
         THEN EmitParts(Tail(parts), isInThinking, out,
                        streamThinkingAsContent, src)
         ELSE EmitParts(Tail(parts),
                        IF opens THEN TRUE ELSE IF closes THEN FALSE
                        ELSE isInThinking,
                        Append(out, ContentChunk(content, src)),
                        streamThinkingAsContent, src)

\* lines 271-273: x || 0
OrZero(x) == IF x = Undefined THEN 0 ELSE x

\* lines 270-274
UsageSummary(usage) ==
    IF usage.present
    THEN [present |-> TRUE,
          prompt_tokens |-> OrZero(usage.promptTokenCount),
          completion_tokens |-> OrZero(usage.candidatesTokenCount),
          total_tokens |-> OrZero(usage.promptTokenCount)
                             + OrZero(usage.candidatesTokenCount)]
    ELSE NoSummary

\* line 258: the condition under which the terminal chunk is enqueued
IsFinish(parsed) ==
    \/ parsed.usageMetadata.present
    \/ /\ CandidatesOf(parsed) # << >>
       /\ CandidatesOf(parsed)[1].finishReason \notin {"", "STOP"}

\* lines 219-277: one parsed event
ProcessEvent(s, parsed) ==
    LET e == EmitParts(AllParts(CandidatesOf(parsed)), s.isInThinking, s.out,
                       s.streamThinkingAsContent, s.lineNo)
    IN [s EXCEPT !.isInThinking = e.isInThinking,
                 !.out = IF IsFinish(parsed)
                         THEN Append(e.out,
                                FinalChunk(UsageSummary(parsed.usageMetadata),
                                           s.lineNo))
                         ELSE e.out]

\* a faulty translator: a line that is skipped makes the session forget
\* that it is inside a thinking segment
ProcessLine_forgets(s, line) ==
    LET n == [s EXCEPT !.lineNo = @ + 1]
        data == Trim(SubSeq(line, Len(DataPrefix) + 1, Len(line)))
    IN IF ~StartsWithData(line) THEN [n EXCEPT !.isInThinking = FALSE]
       ELSE IF data = << DonePayload >>
       THEN [n EXCEPT !.out = Append(@, DoneLine(n.lineNo))]
       ELSE IF Parses(data) THEN ProcessEvent(n, ParsedEvent(data[1]))
       ELSE [n EXCEPT !.isInThinking = FALSE]

\* lines 211-280: one complete line
ProcessLine(s, line) ==
    LET n == [s EXCEPT !.lineNo = @ + 1]
        data == Trim(SubSeq(line, Len(DataPrefix) + 1, Len(line)))
    IN IF ~StartsWithData(line) THEN n
       ELSE IF data = << DonePayload >>
       THEN [n EXCEPT !.out = Append(@, DoneLine(n.lineNo))]
       ELSE IF Parses(data) THEN ProcessEvent(n, ParsedEvent(data[1]))
       ELSE n

\* line 210
RECURSIVE ProcessLines(_, _)
ProcessLines(s, lines) ==
    IF lines = << >> THEN s
    ELSE ProcessLines(ProcessLine(s, Head(lines)), Tail(lines))

\* a faulty translator: the trailing partial line is processed with the
\* complete ones instead of being held back
transform_noHoldBack(s, chunk) ==
    [ProcessLines(s, Split(s.buffer \o chunk)) EXCEPT !.buffer = << >>]

\* lines 202-282: transform(chunk)
transform(s, chunk) ==
    LET lines == Split(s.buffer \o chunk)
    IN [ProcessLines(s, SubSeq(lines, 1, Len(lines) - 1))
          EXCEPT !.buffer = lines[Len(lines)]]

\* a faulty flush: an open thinking segment is left open
flush_noClose(s) ==
    [s EXCEPT !.out = @ \o << DoneLine(0) >>, !.closed = TRUE]

\* lines 284-301: flush()
flush(s) ==
    [s EXCEPT !.out = (IF s.isInThinking
                       THEN Append(@, ContentChunk(<< CloseMarker >>, 0))
                       ELSE @) \o << DoneLine(0) >>,
              !.closed = TRUE]

\* the upstream lines explored, each without its line feed
LineTemplates ==
    {DataPrefix \o << open, "}" >> : open \in EventOpens}
      \cup {DataPrefix \o << DonePayload >>,
            DataPrefix \o << "{text", "}", CR >>,
            DataPrefix \o << "{thought" >>,
            << "{text", "}" >>,
            << >>}

RECURSIVE Joined(_)
Joined(lines) ==
    IF lines = << >> THEN << >>
    ELSE Head(lines) \o << LF >> \o Joined(Tail(lines))

\* what an upstream body can be: up to MaxLines lines, cut anywhere
Upstreams ==
    LET whole == {Joined(ls) : ls \in UNION {[1 .. n -> LineTemplates] :
                                              n \in 0 .. MaxLines}}
    IN UNION {{SubSeq(w, 1, k) : k \in 0 .. Len(w)} : w \in whole}

rotatorVars == <<credentials, clientConfigured, currentIndex, tokenCache,
                 rateLimits, storage, now, ticks, lastReport, reportsMade, req,
                 initialized, boot>>

\* the worker has received a 2xx answer to its /proxy request and pipes the
\* body through the translator
InitStream ==
    /\ session \in {[NoSession EXCEPT !.upstream = u,
                                      !.streamThinkingAsContent = b] :
                      u \in Upstreams, b \in BOOLEAN}
    /\ credentials = 0
    /\ clientConfigured = FALSE
    /\ storage = Undefined
    /\ currentIndex = loadState(storage)
    /\ tokenCache = EmptyMap
    /\ rateLimits = EmptyMap
    /\ now = 0
    /\ ticks = 0
    /\ lastReport = [k \in (0 .. MaxPool) \X ModelTypes |-> Undefined]
    /\ reportsMade = 0
    /\ req = [p \in Procs |-> IdleReq]
    /\ initialized = TRUE
    /\ boot = Booted(credentials)

\* the next n fragments of the body arrive as one chunk
Transform(n) ==
    LET chunk == SubSeq(session.upstream, 1, n)
    IN /\ ~session.closed
       /\ n \in 1 .. Len(session.upstream)
       /\ session' = [transform(session, chunk) EXCEPT
                        !.upstream = SubSeq(session.upstream, n + 1,
                                            Len(session.upstream)),
                        !.received = @ \o chunk,
                        !.midLine = @ \/ Last(chunk) # LF]
       /\ UNCHANGED rotatorVars

\* the body ends
Flush ==
    /\ ~session.closed
    /\ session.upstream = << >>
    /\ session' = flush(session)
    /\ UNCHANGED rotatorVars

MaxChunk == (2 + 3 + 1) * MaxLines

NextStream ==
    \/ \E n \in 1 .. MaxChunk : Transform(n)
    \/ Flush

SpecStream == InitStream /\ [][NextStream]_vars

IsText(fragment) == fragment \notin {OpenMarker, CloseMarker}

\* the content texts of an output in order, marker tokens left out
RECURSIVE ContentTexts(_)
ContentTexts(out) ==
    IF out = << >> THEN << >>
    ELSE SelectSeq(Head(out).content, IsText) \o ContentTexts(Tail(out))

\* the translator before its first chunk, configured like the session
Fresh == [NoSession EXCEPT
            !.streamThinkingAsContent = session.streamThinkingAsContent]

\* the completed output for the bytes received, had they come as one chunk
OneChunk == flush(transform(Fresh, session.received))

\* C13: however the upstream bytes were split into chunks, once the stream
\* has closed the sequence of emitted content texts (markers ignored) is the
\* one emitted when the same bytes arrive as a single chunk.
C13_ChunkBoundaryInvariance ==
    session.closed =>
        ContentTexts(session.out) = ContentTexts(OneChunk.out)

\* a closed session that got its bytes in several chunks, one of them ending
\* inside a line whose event was then emitted, and emitted several texts
C13_Witness ==
    /\ session.closed
    /\ session.midLine
    /\ session.buffer = << >>
    /\ Len(ContentTexts(session.out)) >= 2

\* how many times a marker occurs in the first n events of an output
MarkerCount(out, n, marker) ==
    Cardinality({ij \in (1 .. n) \X (1 .. 2) :
                   /\ ij[2] <= Len(out[ij[1]].content)
                   /\ out[ij[1]].content[ij[2]] = marker})

\* opening markers minus closing markers in the first n events
Depth(out, n) ==
    MarkerCount(out, n, OpenMarker) - MarkerCount(out, n, CloseMarker)

\* C14: at every point of the output the closing markers never outnumber the
\* opening ones and at most one segment is open (a closing marker is only
\* emitted inside a thinking segment); while the stream is open a segment is
\* open exactly when isInThinking; once the stream has closed the output
\* holds as many opening as closing markers.
C14_ThinkingMarkersBalanced ==
    /\ \A n \in 0 .. Len(session.out) : Depth(session.out, n) \in {0, 1}
    /\ ~session.closed =>
          (Depth(session.out, Len(session.out)) = 1 <=> session.isInThinking)
    /\ session.closed => Depth(session.out, Len(session.out)) = 0

\* a closed session that was cut inside its second thinking segment
C14_Witness ==
    /\ session.closed
    /\ MarkerCount(session.out, Len(session.out), OpenMarker) = 2
    /\ \E i \in 1 .. Len(session.out) :
          /\ session.out[i].src = 0
          /\ session.out[i].content = << CloseMarker >>

\* C15: a terminator line is only ever the final event of the output of a
\* completed session: nothing is emitted after it, the completed output ends
\* with it, and when the session ended inside a thinking segment the
\* closing-marker chunk comes just before it.
C15_TerminatorLast ==
    LET out == session.out
    IN /\ \A i \in 1 .. Len(out) :
             out[i].type = "done" => (session.closed /\ i = Len(out))
       /\ session.closed =>
             /\ out # << >>
             /\ Last(out).type = "done"
             /\ session.isInThinking =>
                   /\ Len(out) >= 2
                   /\ out[Len(out) - 1].content = << CloseMarker >>

\* the usage metadata an event carries, in the flat or in the nested shape
CarriedUsage(parsed) ==
    IF parsed.usageMetadata.present THEN parsed.usageMetadata
    ELSE IF parsed.response.present THEN parsed.response.usageMetadata
    ELSE NoUsage

\* some candidate of the event reports a finish reason other than the normal
\* one
AbnormalFinish(parsed) ==
    \E k \in 1 .. Len(CandidatesOf(parsed)) :
        CandidatesOf(parsed)[k].finishReason \notin {"", "STOP"}

\* the terminal chunks the output holds for upstream line i
TerminalChunks(i) ==
    {k \in 1 .. Len(session.out) :
       session.out[k].src = i /\ session.out[k].finish_reason = "stop"}

\* C16: for every upstream line received whole that parses to an event which
\* carries usage metadata (flat or nested shape) or in which a candidate
\* reports a non-normal finish reason, the output holds exactly one terminal
\* chunk (finish_reason stop) for that line, and when usage is present the
\* chunk carries its prompt and completion counts and their total.
C16_TerminalChunkPerFinish ==
    LET lines == Split(session.received)
    IN \A i \in 1 .. (Len(lines) - 1) :
         LET data == Trim(SubSeq(lines[i], Len(DataPrefix) + 1, Len(lines[i])))
             parsed == ParsedEvent(data[1])
             usage == CarriedUsage(parsed)
         IN (StartsWithData(lines[i]) /\ Parses(data)
               /\ (usage.present \/ AbnormalFinish(parsed))) =>
              /\ Cardinality(TerminalChunks(i)) = 1
              /\ usage.present =>
                   \A k \in TerminalChunks(i) :
                      /\ session.out[k].usage.present
                      /\ session.out[k].usage.prompt_tokens
                            = OrZero(usage.promptTokenCount)
                      /\ session.out[k].usage.completion_tokens
                            = OrZero(usage.candidatesTokenCount)
                      /\ session.out[k].usage.total_tokens
                            = OrZero(usage.promptTokenCount)
                                + OrZero(usage.candidatesTokenCount)

\* the events of the output that come from upstream lines before line i
EventsBefore(i) ==
    Cardinality({k \in 1 .. Len(session.out) :
                   session.out[k].src \in 1 .. (i - 1)})

\* the events of the output that come from upstream line i
EventsOf(i) == {k \in 1 .. Len(session.out) : session.out[k].src = i}

\* upstream line i, received whole, is the event with a thought text part
\* followed by a text part that is not a thought
MixedLine(i) ==
    LET lines == Split(session.received)
    IN /\ i \in 1 .. (Len(lines) - 1)
       /\ StartsWithData(lines[i])
       /\ Trim(SubSeq(lines[i], Len(DataPrefix) + 1, Len(lines[i])))
             = << "{mixed", "}" >>

\* C27: with thinking-as-content enabled, an event line with a thought text
\* part followed by a non-thought text part, reached outside a thinking
\* segment, yields exactly two events, adjacent and in this order: the
\* thought text behind the opening marker and the other text behind the
\* closing marker; the session is outside a thinking segment after them.
C27_ThoughtThenTextInOneLine ==
    \A i \in 1 .. MaxLines :
        LET out == session.out
            n == EventsBefore(i)
        IN (/\ MixedLine(i)
            /\ session.streamThinkingAsContent
            /\ Depth(out, n) = 0) =>
              /\ EventsOf(i) = {n + 1, n + 2}
              /\ out[n + 1] = ContentChunk(<< OpenMarker, "u" >>, i)
              /\ out[n + 2] = ContentChunk(<< CloseMarker, "b" >>, i)
              /\ Depth(out, n + 1) = 1
              /\ Depth(out, n + 2) = 0
              /\ (session.lineNo = i /\ ~session.closed) =>
                    ~session.isInThinking

\* such a line translated after a plain text line, the stream still open
C27_Witness ==
    /\ session.streamThinkingAsContent
    /\ ~session.closed
    /\ session.lineNo = 2
    /\ MixedLine(2)
    /\ EventsBefore(2) = 1
    /\ Len(session.out) = 3
    /\ session.out[2].content = << OpenMarker, "u" >>
    /\ session.out[3].content = << CloseMarker, "b" >>

\* a line the translator has something to do with: it carries the
\* event-data marker and its payload is the terminator or parses
WellFormed(line) ==
    LET data == Trim(SubSeq(line, Len(DataPrefix) + 1, Len(line)))
    IN /\ StartsWithData(line)
       /\ data = << DonePayload >> \/ Parses(data)

\* the lines received whole
CompleteLines ==
    LET lines == Split(session.received)
    IN SubSeq(lines, 1, Len(lines) - 1)

\* an output without the numbers of the upstream lines its events come from
StripSrc(out) == [k \in 1 .. Len(out) |-> [out[k] EXCEPT !.src = 0]]

\* the session had the other lines never been sent
WithoutBadLines ==
    LET s == ProcessLines(Fresh, SelectSeq(CompleteLines, WellFormed))
    IN IF session.closed THEN flush(s) ELSE s

\* C28: at every point of a session the output and the inside-thinking flag
\* are those of the same session with every complete line removed that lacks
\* the event-data marker or whose payload does not parse: such a line emits
\* nothing, does not touch the flag and does not end the session.
C28_BadLinesAreSkipped ==
    /\ StripSrc(session.out) = StripSrc(WithoutBadLines.out)
    /\ session.isInThinking = WithoutBadLines.isInThinking
    /\ ~session.closed => session.lineNo = Len(CompleteLines)

\* inside a thinking segment a line with an unparsable payload was skipped
\* and the thought line after it was translated as a continuation
C28_Witness ==
    /\ ~session.closed
    /\ session.streamThinkingAsContent
    /\ session.lineNo = 3
    /\ Len(CompleteLines) = 3
    /\ WellFormed(CompleteLines[1])
    /\ StartsWithData(CompleteLines[2])
    /\ ~WellFormed(CompleteLines[2])
    /\ WellFormed(CompleteLines[3])
    /\ Len(session.out) = 2
    /\ session.out[1].content = << OpenMarker, "t" >>
    /\ session.out[2] = ContentChunk(<< "t" >>, 3)
    /\ session.isInThinking

\* ------------------------------------------------- concurrent sessions
\* The worker serves several streaming requests at once; each call of
\* handleStreamingRequest declares its own buffer and isInThinking (lines
\* 198-199) and builds its own TransformStream (line 201).
NumSessions == 2    \* translation sessions open at the same time
SessionLines == 2   \* upstream lines of each of them

Sessions == 1 .. NumSessions

\* the lines the concurrent sessions are fed with
SessionTemplates ==
    {DataPrefix \o << open, "}" >> : open \in {"{text", "{thought", "{mixed"}}

SessionUpstreams ==
    {Joined(ls) : ls \in UNION {[1 .. n -> SessionTemplates] :
                                  n \in 0 .. SessionLines}}

\* a faulty worker: buffer and isInThinking are module-level variables, every
\* session works on those of the first one
Closure_shared(sessions, k) ==
    [sessions[k] EXCEPT !.buffer = sessions[1].buffer,
                        !.isInThinking = sessions[1].isInThinking]

\* lines 198-199: the closure state the transformer of session k works on
Closure(sessions, k) == sessions[k]

InitSessions ==
    /\ session \in [Sessions ->
                      {[NoSession EXCEPT !.upstream = u,
                                         !.streamThinkingAsContent = b] :
                         u \in SessionUpstreams, b \in BOOLEAN}]
    /\ credentials = 0
    /\ clientConfigured = FALSE
    /\ storage = Undefined
    /\ currentIndex = loadState(storage)
    /\ tokenCache = EmptyMap
    /\ rateLimits = EmptyMap
    /\ now = 0
    /\ ticks = 0
    /\ lastReport = [k \in (0 .. MaxPool) \X ModelTypes |-> Undefined]
    /\ reportsMade = 0
    /\ req = [p \in Procs |-> IdleReq]
    /\ initialized = TRUE
    /\ boot = Booted(credentials)

\* the next n fragments of the body of session k arrive as one chunk
TransformOf(k, n) ==
    LET s == session[k]
        chunk == SubSeq(s.upstream, 1, n)
    IN /\ ~s.closed
       /\ n \in 1 .. Len(s.upstream)
       /\ session' = [session EXCEPT ![k] =
                        [transform(Closure(session, k), chunk) EXCEPT
                           !.upstream = SubSeq(s.upstream, n + 1,
                                               Len(s.upstream)),
                           !.received = @ \o chunk,
                           !.midLine = @ \/ Last(chunk) # LF]]
       /\ UNCHANGED rotatorVars

\* the body of session k ends
FlushOf(k) ==
    /\ ~session[k].closed
    /\ session[k].upstream = << >>
    /\ session' = [session EXCEPT ![k] = flush(Closure(session, k))]
    /\ UNCHANGED rotatorVars

SessionChunk == (2 + 2 + 1) * SessionLines

NextSessions ==
    \/ \E k \in Sessions, n \in 1 .. SessionChunk : TransformOf(k, n)
    \/ \E k \in Sessions : FlushOf(k)

SpecSessions == InitSessions /\ [][NextSessions]_vars

\* session k run alone on the bytes it has received so far
Alone(k) ==
    LET fresh == [NoSession EXCEPT !.streamThinkingAsContent =
                                      session[k].streamThinkingAsContent]
        s == transform(fresh, session[k].received)
    IN IF session[k].closed THEN flush(s) ELSE s

\* C29: at every point of every interleaving of the chunks of the sessions,
\* the output, the buffer and the inside-thinking flag of each session are
\* those of the session run alone on its own input.
C29_SessionsAreIsolated ==
    \A k \in Sessions :
        /\ session[k].out = Alone(k).out
        /\ session[k].buffer = Alone(k).buffer
        /\ session[k].isInThinking = Alone(k).isInThinking

\* the first session stands inside a thinking segment with half a line in
\* its buffer while the second one has meanwhile translated a plain text
\* without any marker and ended
C29_Witness ==
    /\ session[1].isInThinking
    /\ ~session[1].closed
    /\ session[1].buffer # << >>
    /\ session[1].out # << >>
    /\ session[2].streamThinkingAsContent
    /\ session[2].closed
    /\ Len(session[2].out) = 2
    /\ session[2].out[1].content = << "a" >>

\* ------------------------------------ a report during a selection's refresh
\* C31: at the moment a selection for class c returns account i, the
\* tracker holds no unexpired limit of class c on account i, a report for
\* (i, c) processed while the selection awaited account i's refresh included.
C31_ReturnedAccountNotLimited ==
    [][\A p \in Procs :
         SelectionReturns(p) =>
            ~LimitedAt(rateLimits', req'[p].sel.idx, req'[p].modelType, now')]_vars

\* --------------------------------------- what a failing selection has seen
\* a selection of request p (the first one or the retry selection of a
\* dispatch) ends in this step without an account
SelectionGivesUp(p) ==
    /\ req[p].pc # "done"
    /\ SelectionFailed(req'[p])

\* C32: over a non-empty pool a selection reports all_rate_limited only if
\* it found every account of the pool limited for its class, and it reports
\* a failure only if every account was either tried by it (found limited,
\* or failing to yield a token) or is, when it ends, limited for the class
\* or without a token that can be served; a cursor moved by another request
\* during a suspension included.
C32_FailureMeansNoUsableAccount ==
    [][\A p \in Procs :
         (SelectionGivesUp(p) /\ credentials > 0) =>
            /\ req'[p].res.errorType = "all_rate_limited" =>
                  \A i \in Accounts :
                     \E e \in ProbesOf(req'[p]) :
                        e.idx = i /\ e.outcome = "limited"
            /\ \A i \in Accounts :
                  \/ \E e \in ProbesOf(req'[p]) : e.idx = i
                  \/ LimitedAt(rateLimits', i, req'[p].modelType, now')
                  \/ ~CachedValidIn(tokenCache', i)]_vars

\* --------------------------------------------- a report on an expired entry
\* the tracker still stores an entry of the account whose deadline has
\* passed, with the flag of the class set
StaleFlag(limits, accountIndex, modelType, t) ==
    /\ MapHas(limits, accountIndex)
    /\ IsLimitedFlag(limits[accountIndex], modelType)
    /\ t >= limits[accountIndex].limitedUntil

\* C33: when a report for one class arrives on an account whose stored
\* entry has expired with the flag of the other class c set, the account
\* becomes limited for the reported class only, not again for c.
C33_ExpiredFlagNotRevived ==
    [][\A accountIndex \in 0 .. MaxPool, modelType \in ModelTypes :
         ReportOn(accountIndex, modelType) =>
            /\ LimitedAt(rateLimits', accountIndex, modelType, now')
            /\ \A c \in ModelTypes \ {modelType} :
                  StaleFlag(rateLimits, accountIndex, c, now) =>
                     ~LimitedAt(rateLimits', accountIndex, c, now')]_vars

\* ------------------------------------------- two dispatches on one account
\* Both requests of a behaviour may be dispatches, on a pool of one account
\* with a usable client identity; no report is posted from outside.
InitUnauthorized ==
    /\ credentials = 1
    /\ clientConfigured = TRUE
    /\ storage \in StoredChoices
    /\ currentIndex = loadState(storage)
    /\ tokenCache = EmptyMap
    /\ rateLimits = EmptyMap
    /\ now = 0
    /\ ticks = 0
    /\ lastReport = [k \in (0 .. MaxPool) \X ModelTypes |-> Undefined]
    /\ reportsMade = 0
    /\ req = [p \in Procs |-> IdleReq]
    /\ initialized = TRUE
    /\ boot = Booted(credentials)
    /\ session = NoSession

NextUnauthorized ==
    \/ \E p \in Procs, modelId \in ModelIds : StartProxy(p, modelId)
    \/ \E p \in Procs, e \in ExpiresInChoices : RefreshSucceeds(p, e)
    \/ \E p \in Procs : RefreshFails(p)
    \/ \E p \in Procs, status \in Statuses : UpstreamRateLimited(p, status)
    \/ \E p \in Procs : UpstreamUnauthorized(p)
    \/ \E p \in Procs, e \in ExpiresInChoices : Refresh401Succeeds(p, e)
    \/ \E p \in Procs : Refresh401Fails(p)
    \/ \E p \in Procs, status \in Statuses : UpstreamOther(p, status)
    \/ \E p \in Procs, status \in Statuses : RetryAnswer(p, status)
    \/ \E p \in Procs : UpstreamThrows(p)
    \/ \E delta \in TickChoices : Tick(delta, MaxTicks)

SpecUnauthorized == InitUnauthorized /\ [][NextUnauthorized]_vars

\* C34: the 401 handling of a dispatch removes from the cache only the
\* token its own rejected call carried: an entry holding another token (one
\* that another dispatch has refreshed in the meantime) is left in place.
C34_EvictsOnlyRejectedToken ==
    [][\A p \in Procs :
         Gets401(p) =>
            \A i \in DOMAIN tokenCache :
               tokenCache[i].accessToken # req[p].call.token =>
                  /\ MapHas(tokenCache', i)
                  /\ tokenCache'[i] = tokenCache[i]]_vars

\* ------------------------------------------------- refreshes in flight
\* request p is suspended on a call to the authorization server for account
\* i: the refresh of a selection, or the refresh after a 401
RefreshInFlight(p, i) ==
    \/ req[p].pc = "sel_refresh" /\ req[p].sel.idx = i
    \/ req[p].pc = "refresh401" /\ req[p].first.accountIndex = i

\* C35: at any time at most one token refresh is in flight per account.
C35_OneRefreshPerAccount ==
    \A i \in 0 .. MaxPool :
        Cardinality({p \in Procs : RefreshInFlight(p, i)}) <= 1

\* ------------------------------------------- every refused call is recorded
\* an upstream call of dispatch p (the first or the retried one) is
\* answered 429 or 503 in this step
RefusedAsLimited(p) ==
    /\ req[p].pc \in {"call1", "call2"}
    /\ Len(req'[p].resp) = Len(req[p].resp) + 1
    /\ Last(req'[p].resp).status \in {429, 503}

\* C36: every 429 or 503 answer received during a dispatch, on the first
\* call or on the retry, leaves the tracker with an unexpired entry limiting
\* the account that received it for the request's model class.
C36_EveryRefusalRecorded ==
    [][\A p \in Procs :
         RefusedAsLimited(p) =>
            LimitedAt(rateLimits', req[p].call.accountIndex,
                      req[p].modelType, now')]_vars

\* ------------------------------------------- the terminal chunk of a session
\* the terminal chunks (finish_reason stop) of the whole output
AllTerminalChunks ==
    {k \in 1 .. Len(session.out) : session.out[k].finish_reason = "stop"}

\* the upstream stream ended normally: the session has closed with an empty
\* buffer after a line, received whole, whose event reports the normal
\* finish reason
EndedNormally ==
    LET lines == Split(session.received)
    IN /\ session.closed
       /\ session.buffer = << >>
       /\ \E i \in 1 .. (Len(lines) - 1) :
             LET data == Trim(SubSeq(lines[i], Len(DataPrefix) + 1,
                                     Len(lines[i])))
             IN /\ StartsWithData(lines[i])
                /\ Parses(data)
                /\ \E k \in 1 .. Len(CandidatesOf(ParsedEvent(data[1]))) :
                      CandidatesOf(ParsedEvent(data[1]))[k].finishReason = "STOP"

\* C37: the output of one translation session holds at most one terminal
\* chunk (finish_reason stop), streams with several events carrying usage
\* metadata included, and holds one whenever the upstream stream ended
\* normally.
C37_OneTerminalChunk ==
    /\ Cardinality(AllTerminalChunks) <= 1
    /\ EndedNormally => Cardinality(AllTerminalChunks) = 1

\* ------------------------------------------------- the persisted cursor
\* C38: the persisted store holds only the cursor, and with every write
\* applied in issue order it follows the in-memory cursor: a step that
\* changes currentIndex writes the new value in the same step, nothing else
\* is ever written, and so the persisted cursor equals currentIndex as soon
\* as one write has been issued (before that the store is empty and
\* currentIndex is the default loadState chose).
C38_PersistedCursorFollows ==
    /\ [](IF storage = Undefined
          THEN currentIndex = loadState(Undefined)
          ELSE storage = currentIndex)
    /\ [][(currentIndex' # currentIndex \/ storage' # storage) =>
             storage' = currentIndex']_vars

\* a selection has rotated to another account and persisted the cursor, no
\* report having been posted from outside
C38_Witness ==
    \E p \in Procs :
        /\ reportsMade = 0
        /\ req[p].pc = "done"
        /\ req[p].kind = "getToken"
        /\ req[p].res.errorType = "none"
        /\ req[p].sel.attempt > 0
        /\ currentIndex = req[p].sel.idx
        /\ currentIndex # loadState(Undefined)
        /\ storage = currentIndex

\* ------------------------------------------------ the tallies of the loop
\* getValidToken line 344: the condition under which neither branch of
\* lines 333-342 is taken and the final return is reached
FallbackReached(rateLimitedCount, tokenRefreshFailedCount, totalAccounts) ==
    /\ rateLimitedCount # totalAccounts
    /\ ~(tokenRefreshFailedCount > 0)

\* C39: when the probing loop of a selection on a non-empty pool has ended
\* without returning an account, rateLimitedCount + tokenRefreshFailedCount
\* equals the pool size, and the final fallback return is not reached.
C39_TalliesCoverThePool ==
    \A p \in Procs :
        LET f == req[p].sel
        IN (SelectionFailed(req[p]) /\ credentials > 0) =>
             /\ f.attempt = credentials
             /\ f.rateLimitedCount + f.tokenRefreshFailedCount = credentials
             /\ ~FallbackReached(f.rateLimitedCount, f.tokenRefreshFailedCount,
                                 credentials)

\* a selection over two accounts has failed after skipping one account as
\* limited and failing to refresh the other
C39_Witness ==
    \E p \in Procs :
        /\ credentials = 2
        /\ SelectionFailed(req[p])
        /\ req[p].sel.rateLimitedCount = 1
        /\ req[p].sel.tokenRefreshFailedCount = 1

====
